---------------------------- MODULE Spec2Model ----------------------------
(***************************************************************************)
(* Race scoring and league standings of the DCU member league backend.     *)
(*                                                                         *)
(*   RaceScorer   src/backend/services/results/race_scorer.py              *)
(*   LeagueEngine src/backend/services/results/league_engine.py            *)
(*                                                                         *)
(* Python dictionaries are modelled as records with every key present; a   *)
(* key the code reads with .get(key, default) and that is absent holds the *)
(* default.  None is the empty sequence, a value v that may be None is     *)
(* <<v>>.  list.sort is a stable sort, so is every sort below.             *)
(***************************************************************************)
EXTENDS Integers, Sequences, FiniteSets, TLC

VARIABLES
    settings,      \* league settings document: point schemes, bestRacesCount
    race_config,   \* the race being scored: manual lists, sprints, types
    fetched,       \* the rider list handed to calculate_results
    riders,        \* the same list as the scorer returns and updates it
    phase,         \* "fetched" | "scored" | "ranked" | "saved" | "edited" |
                   \* "overridden" | "rescored" | "reclassified"
    races_data,    \* the stored race documents, in the order they are read
    subgroup,      \* the category label the rider list belongs to
    standings,     \* the stored standings document (category -> entries)
    override,      \* override_race_id and override_race_data of the last
                   \* calculate_standings call
    calls,         \* the process_race_results calls in progress: their
                   \* place in the code, the race they refresh (its place in
                   \* races_data) and their local variables
    segment_efforts_map
                   \* the segment efforts handed to calculate_results

vars == <<settings, race_config, fetched, riders, phase, races_data, subgroup, standings,
          override, calls, segment_efforts_map>>

---------------------------------------------------------------------------
(* Bounds of the model *)

MaxRiders == 2          \* riders per enumerated rider list
MaxRaces  == 3          \* stored races in the enumerated league
MaxBest   == 2          \* largest bestRacesCount of the enumerated league
MaxCrossings == 3       \* crossings of a segment by one rider in fetched efforts

---------------------------------------------------------------------------
(* Identifiers.  A raw id is what a document holds, an integer or a string; *)
(* the code compares ids only after str().                                  *)

Digits == <<"1", "2", "3", "4", "5", "6", "7", "8", "9">>

IntId(n) == [kind |-> "int", digits |-> Digits[n]]
StrId(n) == [kind |-> "str", digits |-> Digits[n]]

\* str(x) of a raw id: the decimal digits of an integer, a string unchanged.
Str(x) == x.digits

\* set(str(x) for x in lst)
StrSet(lst) == {Str(x) : x \in lst}

None == <<>>
Some(v) == <<v>>

---------------------------------------------------------------------------
(* Generic helpers *)

Range(s) == {s[i] : i \in DOMAIN s}

\* The sequence s itself, held as an explicit tuple.
AsTuple(s) == s \o <<>>

\* The element of a one-element set.  One({e : x \in {v}}) is e with x
\* standing for the value of v, which is computed once.
One(S) == CHOOSE x \in S : TRUE

RECURSIVE SumSeq(_)
SumSeq(s0) ==
    One({IF s = <<>> THEN 0 ELSE Head(s) + SumSeq(Tail(s)) : s \in {s0}})

\* the indices 1..n that lie in the set keep, ascending
SelectIdx(n, keep) ==
    One({AsTuple([k \in 1..Cardinality(K) |->
                     CHOOSE i \in K : Cardinality({j \in K : j <= i}) = k])
         : K \in {keep \cap 1..n}})

\* [x for x in s if ...]: the elements of s at the indices in keep, in order
Filter(s, keep) ==
    One({One({AsTuple([k \in DOMAIN idx |-> t[idx[k]]])
              : idx \in {SelectIdx(Len(t), keep)}})
         : t \in {s}})

\* scheme[i] if i < len(scheme) else 0      (i is a 0-based Python index)
SchemeAt(scheme, i) == IF i < Len(scheme) THEN scheme[i + 1] ELSE 0

\* key(a) < key(b) of two sort keys, tuples of integers of one length
KeyLess(a, b) ==
    \E k \in DOMAIN a : a[k] < b[k] /\ \A m \in 1..(k - 1) : a[m] = b[m]

\* The place each element takes in list.sort(key=...), the stable sort:
\* after every element with a smaller key and after the earlier elements
\* with an equal key.  keys[i] is the key of the i-th element.
SortPos(keys0) ==
    One({AsTuple([i \in DOMAIN keys |->
                     1 + Cardinality({j \in DOMAIN keys :
                                         \/ KeyLess(keys[j], keys[i])
                                         \/ keys[j] = keys[i] /\ j < i})])
         : keys \in {AsTuple(keys0)}})

\* The same for list.sort(key=..., reverse=True): after every element with
\* a greater key and after the earlier elements with an equal key.
SortPosReversed(keys0) ==
    One({AsTuple([i \in DOMAIN keys |->
                     1 + Cardinality({j \in DOMAIN keys :
                                         \/ KeyLess(keys[i], keys[j])
                                         \/ keys[j] = keys[i] /\ j < i})])
         : keys \in {AsTuple(keys0)}})

\* The list s with its elements at the places pos.
Placed(s, pos0) ==
    One({AsTuple([k \in DOMAIN t |-> t[CHOOSE i \in DOMAIN t : pos[i] = k]])
         : t \in {AsTuple(s)}, pos \in {pos0}})

\* s.sort(key=...) and s.sort(key=..., reverse=True)
StableSort(s, keys) == Placed(s, SortPos(keys))
StableSortReversed(s, keys) == Placed(s, SortPosReversed(keys))

---------------------------------------------------------------------------
(* RaceScorer *)

\* The sort key that puts finishTime 0 (DNF) last.  The code's sentinel is
\* 999999999999; it is capped here at the largest integer TLC holds, and
\* every finish time of the model lies below it.
DnfSortKey == 2147483647

\* The sort key without the DNF sentinel.
FinishKeyRaw(r) == r.finishTime

\* x.get('finishTime', 0) if x.get('finishTime', 0) > 0 else 999999999999
FinishKey(r) == IF r.finishTime > 0 THEN r.finishTime ELSE DnfSortKey

\* s.get('key') or f"{s['id']}_{s['count']}"; "" is the absent key.
FmtKey(id, count) ==
    CASE id = "s1" /\ count = 1 -> "s1_1"
      [] id = "s1" /\ count = 2 -> "s1_2"
      [] id = "s2" /\ count = 1 -> "s2_1"
      [] id = "s2" /\ count = 2 -> "s2_2"
      [] OTHER -> "other"

SprintKey(s) == IF s.key # "" THEN s.key ELSE FmtKey(s.id, s.count)

\* Step 1 without str() on the rider's id: an integer id equals no string.
ActiveRidersRawId(rs, manual_exclusions) ==
    Filter(rs, {i \in DOMAIN rs : ~(/\ rs[i].zwiftId.kind = "str"
                                     /\ rs[i].zwiftId.digits \in manual_exclusions)})

\* Step 1: drop the riders in manualExclusions (ids compared as strings).
ActiveRiders(rs, manual_exclusions) ==
    Filter(rs, {i \in DOMAIN rs : Str(rs[i].zwiftId) \notin manual_exclusions})

\* Step 2 without the manualDeclassifications branch.
ResetAndClassifyNoDeclass(r, manual_dqs, manual_declass) ==
    IF Str(r.zwiftId) \in manual_dqs
    THEN [r EXCEPT !.disqualified = TRUE, !.declassified = FALSE,
                   !.finishRank = 9999, !.finishPoints = 0, !.sprintPoints = 0]
    ELSE [r EXCEPT !.disqualified = FALSE, !.declassified = FALSE,
                   !.finishRank = 0, !.finishPoints = 0, !.sprintPoints = 0]

\* Step 2 with the two manual lists tested in the other order.
ResetAndClassifyDeclassFirst(r, manual_dqs, manual_declass) ==
    LET zid == Str(r.zwiftId)
    IN  IF zid \in manual_declass
        THEN [r EXCEPT !.disqualified = FALSE, !.declassified = TRUE,
                       !.finishRank = 0, !.finishPoints = 0,
                       !.sprintPoints = 0]
        ELSE IF zid \in manual_dqs
        THEN [r EXCEPT !.disqualified = TRUE, !.declassified = FALSE,
                       !.finishRank = 9999, !.finishPoints = 0,
                       !.sprintPoints = 0]
        ELSE [r EXCEPT !.disqualified = FALSE, !.declassified = FALSE,
                       !.finishRank = 0, !.finishPoints = 0,
                       !.sprintPoints = 0]

\* Step 2: reset the calculation fields and classify one rider.
ResetAndClassify(r, manual_dqs, manual_declass) ==
    LET zid == Str(r.zwiftId)
    IN  IF zid \in manual_dqs
        THEN [r EXCEPT !.disqualified = TRUE, !.declassified = FALSE,
                       !.finishRank = 9999, !.finishPoints = 0,
                       !.sprintPoints = 0]
        ELSE IF zid \in manual_declass
        THEN [r EXCEPT !.disqualified = FALSE, !.declassified = TRUE,
                       !.finishRank = 0, !.finishPoints = 0,
                       !.sprintPoints = 0]
        ELSE [r EXCEPT !.disqualified = FALSE, !.declassified = FALSE,
                       !.finishRank = 0, !.finishPoints = 0,
                       !.sprintPoints = 0]

\* valid_riders after its sort: the indices of the valid riders of a, by
\* finish time ascending, DNF at the end.
SortedValid(a0) ==
    One({One({StableSort(valid, [k \in DOMAIN valid |-> <<FinishKey(a[valid[k]])>>])
              : valid \in {SelectIdx(Len(a), {i \in DOMAIN a :
                                                ~a[i].disqualified /\ ~a[i].declassified})}})
         : a \in {a0}})

\* len([r for r in valid_riders if r.get('finishTime', 0) > 0])
LastValidRank(a, valid_riders) ==
    Cardinality({k \in DOMAIN valid_riders : a[valid_riders[k]].finishTime > 0})

\* Step 3 with the declassified riders placed after every valid rider.
FinishPointsStepAllValid(a0, finish_points_scheme) ==
    One({One({One({
        AsTuple([i \in DOMAIN a |->
            IF a[i].disqualified THEN a[i]
            ELSE IF a[i].declassified
            THEN [a[i] EXCEPT !.finishRank = last_valid_rank + 1,
                              !.finishPoints =
                                  SchemeAt(finish_points_scheme, last_valid_rank)]
            ELSE IF a[i].finishTime > 0
            THEN [a[i] EXCEPT !.finishRank = rank[i] + 1,
                              !.finishPoints =
                                  SchemeAt(finish_points_scheme, rank[i])]
            ELSE [a[i] EXCEPT !.finishRank = 0, !.finishPoints = 0]])
        : rank \in {[i \in Range(valid_riders) |->
                       (CHOOSE k \in DOMAIN valid_riders : valid_riders[k] = i) - 1]},
          last_valid_rank \in {Len(valid_riders)}})
        : valid_riders \in {SortedValid(a)}})
        : a \in {a0}})

\* Step 3: finish rank and finish points of valid and declassified riders.
\* rank[i] is the 0-based place of rider i in valid_riders.
FinishPointsStep(a0, finish_points_scheme) ==
    One({One({One({
        AsTuple([i \in DOMAIN a |->
            IF a[i].disqualified THEN a[i]
            ELSE IF a[i].declassified
            THEN [a[i] EXCEPT !.finishRank = last_valid_rank + 1,
                              !.finishPoints =
                                  SchemeAt(finish_points_scheme, last_valid_rank)]
            ELSE IF a[i].finishTime > 0
            THEN [a[i] EXCEPT !.finishRank = rank[i] + 1,
                              !.finishPoints =
                                  SchemeAt(finish_points_scheme, rank[i])]
            ELSE [a[i] EXCEPT !.finishRank = 0, !.finishPoints = 0]])
        : rank \in {[i \in Range(valid_riders) |->
                       (CHOOSE k \in DOMAIN valid_riders : valid_riders[k] = i) - 1]},
          last_valid_rank \in {LastValidRank(a, valid_riders)}})
        : valid_riders \in {SortedValid(a)}})
        : a \in {a0}})

\* sprint_type_map.get(key, global_type): the type of the last configured
\* sprint with that key, its own type or the race's segmentType.
SegmentTypeOf(cfg, key) ==
    LET hits == {k \in DOMAIN cfg.sprints : SprintKey(cfg.sprints[k]) = key}
    IN  IF hits = {} THEN cfg.segmentType
        ELSE LET s == cfg.sprints[CHOOSE k \in hits : \A m \in hits : m <= k]
             IN  IF s.type # "" THEN s.type ELSE cfg.segmentType

\* The efforts ordered by the elapsed time over the segment.
SortedEffortsByElapsed(a0, key) ==
    One({One({StableSort(efforts, [k \in DOMAIN efforts |->
                                      <<a[efforts[k]].sprintData[key].time>>])
              : efforts \in {SelectIdx(Len(a), {i \in DOMAIN a :
                                                  key \in DOMAIN a[i].sprintData})}})
         : a \in {a0}})

\* efforts after efforts.sort(key=worldTime): rider indices, arrival order.
SortedEfforts(a0, key) ==
    One({One({StableSort(efforts, [k \in DOMAIN efforts |->
                                      <<a[efforts[k]].sprintData[key].worldTime>>])
              : efforts \in {SelectIdx(Len(a), {i \in DOMAIN a :
                                                  key \in DOMAIN a[i].sprintData})}})
         : a \in {a0}})

RECURSIVE AssignRanks(_, _, _, _, _, _)
\* The loop over the sorted efforts of one key: rank_counter and points_idx
\* advance for valid riders only.
AssignRanks(efforts0, valid, is_split, scheme, rank_counter, points_idx) ==
    One({IF efforts = <<>> THEN <<>>
         ELSE LET i == Head(efforts)
                  is_valid == i \in valid
                  award == is_valid /\ ~is_split /\ points_idx < Len(scheme)
                  points == IF award THEN scheme[points_idx + 1] ELSE 0
              IN  <<[idx |-> i,
                     rank |-> IF is_valid THEN rank_counter ELSE 0,
                     points |-> points]>>
                  \o AssignRanks(Tail(efforts), valid, is_split, scheme,
                                 IF is_valid THEN rank_counter + 1 ELSE rank_counter,
                                 IF award THEN points_idx + 1 ELSE points_idx)
         : efforts \in {efforts0}})

\* The loop body with the points of the key assigned to sprintPoints.
ScoreSprintKeyAssign(a0, key, is_split, valid, sprint_points_scheme) ==
    One({One({
        AsTuple([i \in DOMAIN a |->
            IF key \notin DOMAIN a[i].sprintData THEN a[i]
            ELSE LET r1 == [a[i] EXCEPT !.sprintData[key].rank = res[i].rank]
                 IN  IF is_split
                     THEN [r1 EXCEPT !.sprintDetails =
                              [k \in DOMAIN @ \cup {key} |->
                                  IF k = key THEN a[i].sprintData[key].worldTime
                                  ELSE @[k]]]
                     ELSE IF res[i].points > 0
                     THEN [r1 EXCEPT !.sprintDetails =
                              [k \in DOMAIN @ \cup {key} |->
                                  IF k = key THEN res[i].points ELSE @[k]],
                                     !.sprintPoints = res[i].points]
                     ELSE r1])
        : res \in {One({[i \in {ranked[k].idx : k \in DOMAIN ranked} |->
                           ranked[CHOOSE k \in DOMAIN ranked : ranked[k].idx = i]]
                        : ranked \in {AssignRanks(SortedEfforts(a, key), valid, is_split,
                                                  sprint_points_scheme, 1, 0)}})}})
        : a \in {a0}})

\* The riders after the loop body of one sprint key: every rider with data
\* on the key gets its rank; on a split the crossing time goes to
\* sprintDetails, on a sprint the points (when > 0) go to sprintDetails and
\* are added to sprintPoints.
ScoreSprintKey(a0, key, is_split, valid, sprint_points_scheme) ==
    One({One({
        AsTuple([i \in DOMAIN a |->
            IF key \notin DOMAIN a[i].sprintData THEN a[i]
            ELSE LET r1 == [a[i] EXCEPT !.sprintData[key].rank = res[i].rank]
                 IN  IF is_split
                     THEN [r1 EXCEPT !.sprintDetails =
                              [k \in DOMAIN @ \cup {key} |->
                                  IF k = key THEN a[i].sprintData[key].worldTime
                                  ELSE @[k]]]
                     ELSE IF res[i].points > 0
                     THEN [r1 EXCEPT !.sprintDetails =
                              [k \in DOMAIN @ \cup {key} |->
                                  IF k = key THEN res[i].points ELSE @[k]],
                                     !.sprintPoints = @ + res[i].points]
                     ELSE r1])
        : res \in {One({[i \in {ranked[k].idx : k \in DOMAIN ranked} |->
                           ranked[CHOOSE k \in DOMAIN ranked : ranked[k].idx = i]]
                        : ranked \in {AssignRanks(SortedEfforts(a, key), valid, is_split,
                                                  sprint_points_scheme, 1, 0)}})}})
        : a \in {a0}})

RECURSIVE SprintKeysInOrder(_, _, _, _, _)
\* for key in all_keys: ..., the set all_keys iterated in the given order.
SprintKeysInOrder(a0, order, cfg, valid, sprint_points_scheme) ==
    One({IF order = <<>> THEN a
         ELSE SprintKeysInOrder(
                  ScoreSprintKey(a, Head(order), SegmentTypeOf(cfg, Head(order)) = "split",
                                 valid, sprint_points_scheme),
                  Tail(order), cfg, valid, sprint_points_scheme)
         : a \in {a0}})

RECURSIVE SprintKeysLoop(_, _, _, _, _)
\* for key in all_keys: ...
SprintKeysLoop(a0, keys, cfg, valid, sprint_points_scheme) ==
    One({IF keys = {} THEN a
         ELSE LET key == CHOOSE k \in keys : TRUE
              IN  SprintKeysLoop(
                      ScoreSprintKey(a, key, SegmentTypeOf(cfg, key) = "split",
                                     valid, sprint_points_scheme),
                      keys \ {key}, cfg, valid, sprint_points_scheme)
         : a \in {a0}})

\* Step 5: _calculate_sprint_points.
CalculateSprintPoints(a0, cfg, manual_dqs, manual_declass, sprint_points_scheme) ==
    One({SprintKeysLoop(a, all_keys, cfg, valid, sprint_points_scheme)
         : a \in {a0},
           valid \in {{i \in DOMAIN a0 : /\ Str(a0[i].zwiftId) \notin manual_dqs
                                          /\ Str(a0[i].zwiftId) \notin manual_declass}},
           all_keys \in {UNION {DOMAIN a0[i].sprintData : i \in DOMAIN a0}}})

\* The final sort on totalPoints alone.
TotalAndSortPointsOnly(a) ==
    One({StableSortReversed(t, [i \in DOMAIN t |-> <<t[i].totalPoints>>])
         : t \in {AsTuple([i \in DOMAIN a |->
                     [a[i] EXCEPT !.totalPoints = a[i].finishPoints + a[i].sprintPoints]])}})

\* Step 6: totalPoints, and the final sort by (totalPoints, -ft_key), reversed.
TotalAndSort(a) ==
    One({StableSortReversed(t, [i \in DOMAIN t |->
                                   <<t[i].totalPoints, 0 - FinishKey(t[i])>>])
         : t \in {AsTuple([i \in DOMAIN a |->
                     [a[i] EXCEPT !.totalPoints = a[i].finishPoints + a[i].sprintPoints]])}})

\* The riders after the classification loop.
Classified(active0, manual_dqs, manual_declass) ==
    One({AsTuple([i \in DOMAIN active |->
                     ResetAndClassify(active[i], manual_dqs, manual_declass)])
         : active \in {active0}})

\* RaceScorer.calculate_results(riders, race_config) with no segment efforts
\* (the recalculation mode: sprintData is already on the riders).
calculate_results(rs, cfg, finish_points_scheme, sprint_points_scheme) ==
    LET manual_dqs == StrSet(cfg.manualDQs)
        manual_declass == StrSet(cfg.manualDeclassifications)
        manual_exclusions == StrSet(cfg.manualExclusions)
    IN  TotalAndSort(
            CalculateSprintPoints(
                FinishPointsStep(
                    Classified(ActiveRiders(rs, manual_exclusions),
                               manual_dqs, manual_declass),
                    finish_points_scheme),
                cfg, manual_dqs, manual_declass, sprint_points_scheme))


---------------------------------------------------------------------------
(* RaceScorer: fresh segment efforts *)

\* No segment efforts are handed to calculate_results: None or an empty
\* dict.  A segment_efforts_map is the list of its items, [id, results], in
\* the order of the dict; the ids of segments are strings of digits (the
\* model writes them "s1", "s2") and the configuration holds them as
\* strings too.
NoEfforts == <<>>

\* One entry of the raw results of a segment.  avgPower is copied to the
\* rider and read nowhere, it is left out.
Effort(athlete_id, wt, elapsed) ==
    [athleteId |-> athlete_id, worldTime |-> wt, elapsed |-> elapsed]

\* sprints_by_segment_id.get(str(seg_id)) or sprints_by_segment_id.get(
\* int(seg_id)): the configured sprints of the segment, in config order.
SprintsForSegment(sprints_config, seg_id) ==
    Filter(sprints_config, {k \in DOMAIN sprints_config : sprints_config[k].id = seg_id})

\* athlete_entries of the rider in list order: athleteId is an integer and
\* is looked up among the int(zwiftId) of the riders.
AthleteEntriesUnsorted(results_list, zwift_id) ==
    Filter(results_list,
           {k \in DOMAIN results_list :
               results_list[k].athleteId = [kind |-> "int", digits |-> Str(zwift_id)]})

\* athlete_entries of the rider after athlete_entries.sort(key=worldTime).
AthleteEntries(results_list, zwift_id) ==
    One({StableSort(entries, [k \in DOMAIN entries |-> <<entries[k].worldTime>>])
         : entries \in
               {Filter(results_list,
                       {k \in DOMAIN results_list :
                           results_list[k].athleteId =
                               [kind |-> "int", digits |-> Str(zwift_id)]})}})

\* next((s for s in sprints_for_seg if s.get('count') == count), None)
MatchingSprint(sprints_for_seg, count) ==
    LET hits == {k \in DOMAIN sprints_for_seg : sprints_for_seg[k].count = count}
    IN  IF hits = {} THEN None
        ELSE Some(sprints_for_seg[CHOOSE k \in hits : \A m \in hits : k <= m])

RECURSIVE StoreEfforts(_, _, _, _)
\* for i, entry in enumerate(athlete_entries): count = i + 1, and the entry
\* goes to sprintData[key] of the matching sprint if there is one.
StoreEfforts(sprint_data, athlete_entries, count, sprints_for_seg) ==
    IF count > Len(athlete_entries) THEN sprint_data
    ELSE LET matching_sprint == MatchingSprint(sprints_for_seg, count)
             entry == athlete_entries[count]
         IN  StoreEfforts(
                 IF matching_sprint = None THEN sprint_data
                 ELSE [k \in DOMAIN sprint_data \cup {SprintKey(matching_sprint[1])} |->
                          IF k = SprintKey(matching_sprint[1])
                          THEN [time |-> entry.elapsed, worldTime |-> entry.worldTime,
                                rank |-> 0]
                          ELSE sprint_data[k]],
                 athlete_entries, count + 1, sprints_for_seg)

RECURSIVE MapSegments(_, _, _, _)
\* for seg_id_str, raw_results in segment_efforts_map.items(): the
\* sprintData of the rider zwift_id after the segments of the map.  The
\* results of a segment are held as the list of entries, results_list.
MapSegments(sprint_data, zwift_id, efforts, sprints_config) ==
    IF efforts = <<>> THEN sprint_data
    ELSE One({One({
             MapSegments(
                 IF sprints_for_seg = <<>> \/ results_list = <<>> THEN sprint_data
                 ELSE StoreEfforts(sprint_data, AthleteEntries(results_list, zwift_id),
                                   1, sprints_for_seg),
                 zwift_id, Tail(efforts), sprints_config)
             : sprints_for_seg \in {SprintsForSegment(sprints_config, seg.id)},
               results_list \in {seg.results}})
             : seg \in {Head(efforts)}})

\* RaceScorer._map_segment_efforts.  riders_by_id holds the last rider of
\* an id, an earlier rider of the same id receives nothing.
MapSegmentEfforts(rs0, efforts, sprints_config) ==
    IF efforts = NoEfforts \/ sprints_config = <<>> THEN rs0
    ELSE One({AsTuple([i \in DOMAIN rs |->
                  IF \E j \in DOMAIN rs : j > i /\ Str(rs[j].zwiftId) = Str(rs[i].zwiftId)
                  THEN rs[i]
                  ELSE [rs[i] EXCEPT !.sprintData =
                           MapSegments(@, rs[i].zwiftId, efforts, sprints_config)]])
              : rs \in {rs0}})

\* RaceScorer.calculate_results(riders, race_config, segment_efforts_map):
\* step 4 maps the fresh segment efforts onto the riders.
CalculateResultsFresh(rs, cfg, efforts, finish_points_scheme, sprint_points_scheme) ==
    LET manual_dqs == StrSet(cfg.manualDQs)
        manual_declass == StrSet(cfg.manualDeclassifications)
        manual_exclusions == StrSet(cfg.manualExclusions)
    IN  TotalAndSort(
            CalculateSprintPoints(
                MapSegmentEfforts(
                    FinishPointsStep(
                        Classified(ActiveRiders(rs, manual_exclusions),
                                   manual_dqs, manual_declass),
                        finish_points_scheme),
                    efforts, cfg.sprints),
                cfg, manual_dqs, manual_declass, sprint_points_scheme))

---------------------------------------------------------------------------
(* RaceScorer: preliminary league points *)

\* Python's order of the strings the model uses (code point order).
StrOrder == <<"", "fin", "mid", "other", "s1", "s1_1", "s1_2", "s2", "s2_1", "s2_2">>

StrIndex(x) == CHOOSE k \in DOMAIN StrOrder : StrOrder[k] = x

\* rider.get('finishRank', 0) if rider.get('finishRank', 0) > 0 else 9999999
RankingFinishRank(r) == IF r.finishRank > 0 THEN r.finishRank ELSE 9999999

\* Riders of the list that enter the ranking of a scratch or points race.
PointsRaceCandidates(rs, manual_dqs, manual_exclusions) ==
    SelectIdx(Len(rs),
        {i \in DOMAIN rs :
            /\ Str(rs[i].zwiftId) \notin manual_exclusions
            /\ Str(rs[i].zwiftId) \notin manual_dqs
            /\ \/ rs[i].finishTime > 0
               \/ rs[i].totalPoints > 0
               \/ DOMAIN rs[i].sprintData # {}})

\* The ranking with the declassification as the last key of the sort.
PointsRaceRankingTieBreak(rs0, manual_dqs, manual_declass, manual_exclusions) ==
    One({One({
        StableSortReversed(ranking_data,
            [k \in DOMAIN ranking_data |->
                LET r == rs[ranking_data[k]]
                IN  <<r.totalPoints,
                      0 - RankingFinishRank(r),
                      IF Str(r.zwiftId) \in manual_declass THEN 0 ELSE 1>>])
        : ranking_data \in {PointsRaceCandidates(rs, manual_dqs, manual_exclusions)}})
    : rs \in {rs0}})

\* ranking_data.sort(key=(0 if declassified else 1, totalPoints, -finishRank),
\*                   reverse=True)
PointsRaceRanking(rs0, manual_dqs, manual_declass, manual_exclusions) ==
    One({One({
        StableSortReversed(ranking_data,
            [k \in DOMAIN ranking_data |->
                LET r == rs[ranking_data[k]]
                IN  <<IF Str(r.zwiftId) \in manual_declass THEN 0 ELSE 1,
                      r.totalPoints,
                      0 - RankingFinishRank(r)>>])
        : ranking_data \in {PointsRaceCandidates(rs, manual_dqs, manual_exclusions)}})
    : rs \in {rs0}})

\* The league points a ranking gives: league_rank_points[rank], 0 past the
\* end; 0 for a DQ rider; None for every other rider of the list.
PointsFromRanking(rs0, ranking0, league_rank_points, manual_dqs, manual_exclusions) ==
    One({AsTuple([i \in DOMAIN rs |->
            IF Str(rs[i].zwiftId) \in manual_exclusions THEN None
            ELSE IF Str(rs[i].zwiftId) \in manual_dqs THEN Some(0)
            ELSE IF \E k \in DOMAIN ranking : ranking[k] = i
            THEN Some(SchemeAt(league_rank_points,
                               (CHOOSE k \in DOMAIN ranking : ranking[k] = i) - 1))
            ELSE None])
         : rs \in {rs0}, ranking \in {ranking0}})

\* RaceScorer._calculate_points_race_league_points
ScorerPointsRaceLeaguePoints(rs, league_rank_points, manual_dqs, manual_declass, manual_exclusions) ==
    PointsFromRanking(rs,
        PointsRaceRanking(rs, manual_dqs, manual_declass, manual_exclusions),
        league_rank_points, manual_dqs, manual_exclusions)

\* The split list the scorer ranks a time trial by: every configured sprint
\* when segmentType is split, else the sprints of type split; then sorted by
\* (count, key).
ScorerSplits(cfg) ==
    One({StableSort(splits, [k \in DOMAIN splits |->
                                <<splits[k].count, StrIndex(splits[k].key)>>])
         : splits \in {IF cfg.segmentType = "split" THEN cfg.sprints
                       ELSE Filter(cfg.sprints, {i \in DOMAIN cfg.sprints :
                                                   cfg.sprints[i].type = "split"})}})

\* race_config['sprints'] after the call: splits.sort sorts the configured
\* list itself when segmentType is split (splits is the same list object).
SprintsAfterTimeTrial(cfg) ==
    IF cfg.segmentType = "split" THEN ScorerSplits(cfg) ELSE cfg.sprints

\* The keys under which the crossing of split s is looked up, in order.
SplitKeys(s) == <<s.key, FmtKey(s.id, s.count), s.id>>

\* worldTime of the first of the split's keys that is in sprint_data with
\* worldTime > 0, or 0 when there is none.
SplitWorldTime(sprint_data, s) ==
    LET keys == SplitKeys(s)
        hits == {k \in DOMAIN keys : /\ keys[k] # ""
                                     /\ keys[k] \in DOMAIN sprint_data
                                     /\ sprint_data[keys[k]].worldTime > 0}
    IN  IF hits = {} THEN 0
        ELSE sprint_data[keys[CHOOSE k \in hits : \A m \in hits : k <= m]].worldTime

FurthestSegmentFirst(r, splits) ==
    LET reached == {i \in DOMAIN splits : SplitWorldTime(r.sprintData, splits[i]) > 0}
    IN  IF reached = {} THEN None
        ELSE LET i == CHOOSE x \in reached : \A m \in reached : x <= m
             IN  Some([index |-> i - 1,
                       worldTime |-> SplitWorldTime(r.sprintData, splits[i])])

\* get_furthest_segment: (index, worldTime) of the last split of the list
\* the rider crossed, None when there is none.  The index is 0-based.
FurthestSegment(r, splits) ==
    LET reached == {i \in DOMAIN splits : SplitWorldTime(r.sprintData, splits[i]) > 0}
    IN  IF reached = {} THEN None
        ELSE LET i == CHOOSE x \in reached : \A m \in reached : m <= x
             IN  Some([index |-> i - 1,
                       worldTime |-> SplitWorldTime(r.sprintData, splits[i])])

TimeTrialCandidates(rs, splits, manual_dqs, manual_exclusions) ==
    SelectIdx(Len(rs),
        {i \in DOMAIN rs :
            /\ Str(rs[i].zwiftId) \notin manual_exclusions
            /\ Str(rs[i].zwiftId) \notin manual_dqs
            /\ \/ rs[i].finishTime > 0
               \/ FurthestSegment(rs[i], splits) # None})

\* The ranking with every finisher before every non-finisher, and the
\* declassification deciding after the finish time.
TimeTrialRankingFinishersFirst(rs0, splits0, manual_dqs, manual_declass, manual_exclusions) ==
    One({One({
    LET declass(i) == IF Str(rs[i].zwiftId) \in manual_declass THEN 1 ELSE 0
        fin(i) == IF rs[i].finishTime > 0 THEN 0 ELSE 1
        ft(i) == IF rs[i].finishTime > 0 THEN rs[i].finishTime ELSE 0
        seg(i) == IF rs[i].finishTime > 0 THEN 0 ELSE 0 - furthest[i][1].index
        wt(i) == IF rs[i].finishTime > 0 THEN 0 ELSE furthest[i][1].worldTime
    IN  One({StableSort(ranking_data,
                 [k \in DOMAIN ranking_data |->
                     LET i == ranking_data[k]
                     IN  <<fin(i), ft(i), declass(i), seg(i), wt(i)>>])
             : ranking_data \in {TimeTrialCandidates(rs, splits, manual_dqs,
                                                     manual_exclusions)}})
    : furthest \in {AsTuple([i \in DOMAIN rs |-> FurthestSegment(rs[i], splits)])}})
    : rs \in {rs0}, splits \in {splits0}})

\* ranking_data.sort(key=sort_key): declassified last; finishers by finish
\* time; then non-finishers by segment index descending, worldTime ascending.
TimeTrialRanking(rs0, splits0, manual_dqs, manual_declass, manual_exclusions) ==
    One({One({
    LET declass(i) == IF Str(rs[i].zwiftId) \in manual_declass THEN 1 ELSE 0
        fin(i) == IF rs[i].finishTime > 0 THEN 0 ELSE 1
        ft(i) == IF rs[i].finishTime > 0 THEN rs[i].finishTime ELSE 0
        seg(i) == IF rs[i].finishTime > 0 THEN 0 ELSE 0 - furthest[i][1].index
        wt(i) == IF rs[i].finishTime > 0 THEN 0 ELSE furthest[i][1].worldTime
    IN  One({StableSort(ranking_data,
                 [k \in DOMAIN ranking_data |->
                     LET i == ranking_data[k]
                     IN  <<declass(i), fin(i), ft(i), seg(i), wt(i)>>])
             : ranking_data \in {TimeTrialCandidates(rs, splits, manual_dqs,
                                                     manual_exclusions)}})
    : furthest \in {AsTuple([i \in DOMAIN rs |-> FurthestSegment(rs[i], splits)])}})
    : rs \in {rs0}, splits \in {splits0}})

\* RaceScorer._calculate_time_trial_league_points
ScorerTimeTrialLeaguePoints(rs, cfg, league_rank_points, manual_dqs, manual_declass, manual_exclusions) ==
    PointsFromRanking(rs,
        TimeTrialRanking(rs, ScorerSplits(cfg),
                         manual_dqs, manual_declass, manual_exclusions),
        league_rank_points, manual_dqs, manual_exclusions)

\* RaceScorer.calculate_league_points: the leaguePoints of each rider of rs.
LeaguePointsOf(rs, cfg, league_rank_points) ==
    IF league_rank_points = <<>>
    THEN AsTuple([i \in DOMAIN rs |-> None])
    ELSE IF cfg.type = "time-trial"
    THEN ScorerTimeTrialLeaguePoints(rs, cfg, league_rank_points,
             StrSet(cfg.manualDQs), StrSet(cfg.manualDeclassifications),
             StrSet(cfg.manualExclusions))
    ELSE ScorerPointsRaceLeaguePoints(rs, league_rank_points,
             StrSet(cfg.manualDQs), StrSet(cfg.manualDeclassifications),
             StrSet(cfg.manualExclusions))

\* The riders after calculate_league_points (modified in place).
calculate_league_points(rs0, cfg, league_rank_points) ==
    One({One({AsTuple([i \in DOMAIN rs |->
                         [rs[i] EXCEPT !.leaguePoints = league_points[i]]])
              : league_points \in {LeaguePointsOf(rs, cfg, league_rank_points)}})
         : rs \in {rs0}})

\* race_config after calculate_league_points.
ConfigAfterLeaguePoints(cfg, league_rank_points) ==
    IF league_rank_points # <<>> /\ cfg.type = "time-trial"
    THEN [cfg EXCEPT !.sprints = SprintsAfterTimeTrial(cfg)]
    ELSE cfg


---------------------------------------------------------------------------
(* LeagueEngine: league points of one race and category *)

EmptyMap == [k \in {} |-> 0]

\* A result dict {zid: points} written entry by entry: writes is a sequence
\* of [zid, points], a later write to a zid replaces an earlier one.
DictOf(writes0) ==
    One({[z \in {writes[k].zid : k \in DOMAIN writes} |->
            writes[CHOOSE k \in DOMAIN writes :
                      /\ writes[k].zid = z
                      /\ \A m \in DOMAIN writes : writes[m].zid = z => m <= k].points]
         : writes \in {AsTuple(writes0)}})

\* The writes result[zid] = 0 of the DQ riders, then the writes of a ranking.
RankingWrites(rs0, ranking0, league_rank_points, manual_dqs, manual_exclusions) ==
    One({One({
        [k \in DOMAIN dq |-> [zid |-> Str(rs[dq[k]].zwiftId), points |-> 0]]
        \o [k \in DOMAIN ranking |->
               [zid |-> Str(rs[ranking[k]].zwiftId),
                points |-> SchemeAt(league_rank_points, k - 1)]]
        : dq \in {SelectIdx(Len(rs), {i \in DOMAIN rs :
                                         /\ Str(rs[i].zwiftId) \notin manual_exclusions
                                         /\ Str(rs[i].zwiftId) \in manual_dqs})}})
        : rs \in {rs0}, ranking \in {ranking0}})

\* The raw league points without the has_activity test.
RawLeaguePointsNoActivity(rs0, finish_points_scheme, manual_dqs, manual_declass, manual_exclusions) ==
    One({
    LET valid_riders_count ==
            Cardinality({i \in DOMAIN rs : /\ Str(rs[i].zwiftId) \notin manual_dqs
                                           /\ Str(rs[i].zwiftId) \notin manual_declass})
        last_place_points == SchemeAt(finish_points_scheme, valid_riders_count)
        counted == SelectIdx(Len(rs),
            {i \in DOMAIN rs :
                /\ Str(rs[i].zwiftId) \notin manual_exclusions
                /\ \/ Str(rs[i].zwiftId) \in manual_dqs
                   \/ Str(rs[i].zwiftId) \in manual_declass
                   \/ rs[i].totalPoints > 0
                   \/ rs[i].finishTime > 0})
    IN  DictOf([k \in DOMAIN counted |->
            [zid |-> Str(rs[counted[k]].zwiftId),
             points |-> IF Str(rs[counted[k]].zwiftId) \in manual_dqs THEN 0
                        ELSE IF Str(rs[counted[k]].zwiftId) \in manual_declass
                        THEN last_place_points
                        ELSE rs[counted[k]].totalPoints]])
    : rs \in {rs0}})

\* No leagueRankPoints configured: raw totalPoints, 0 for a DQ rider, the
\* last-place finish points for a declassified rider.
RawLeaguePoints(rs0, finish_points_scheme, manual_dqs, manual_declass, manual_exclusions) ==
    One({
    LET valid_riders_count ==
            Cardinality({i \in DOMAIN rs : /\ Str(rs[i].zwiftId) \notin manual_dqs
                                           /\ Str(rs[i].zwiftId) \notin manual_declass})
        last_place_points == SchemeAt(finish_points_scheme, valid_riders_count)
        counted == SelectIdx(Len(rs),
            {i \in DOMAIN rs :
                /\ Str(rs[i].zwiftId) \notin manual_exclusions
                /\ \/ Str(rs[i].zwiftId) \in manual_dqs
                   \/ Str(rs[i].zwiftId) \in manual_declass
                   \/ rs[i].totalPoints > 0
                   \/ rs[i].finishTime > 0
                   \/ DOMAIN rs[i].sprintData # {}})
    IN  DictOf([k \in DOMAIN counted |->
            [zid |-> Str(rs[counted[k]].zwiftId),
             points |-> IF Str(rs[counted[k]].zwiftId) \in manual_dqs THEN 0
                        ELSE IF Str(rs[counted[k]].zwiftId) \in manual_declass
                        THEN last_place_points
                        ELSE rs[counted[k]].totalPoints]])
    : rs \in {rs0}})

\* LeagueEngine._calculate_scratch_race_league_points
ScratchRanking(rs0, manual_dqs, manual_declass, manual_exclusions) ==
    One({
    LET declass(i) == IF Str(rs[i].zwiftId) \in manual_declass THEN 1 ELSE 0
    IN  One({StableSort(ranking_data,
                 [k \in DOMAIN ranking_data |->
                     <<declass(ranking_data[k]), rs[ranking_data[k]].finishTime>>])
             : ranking_data \in
                 {SelectIdx(Len(rs),
                      {i \in DOMAIN rs :
                          /\ Str(rs[i].zwiftId) \notin manual_exclusions
                          /\ Str(rs[i].zwiftId) \notin manual_dqs
                          /\ rs[i].finishTime > 0})}})
    : rs \in {rs0}})

EngineScratchLeaguePoints(rs, league_rank_points, manual_dqs, manual_declass, manual_exclusions) ==
    DictOf(RankingWrites(rs,
        ScratchRanking(rs, manual_dqs, manual_declass, manual_exclusions),
        league_rank_points, manual_dqs, manual_exclusions))

\* LeagueEngine._calculate_points_race_league_points
EnginePointsRaceLeaguePoints(rs, league_rank_points, manual_dqs, manual_declass, manual_exclusions) ==
    DictOf(RankingWrites(rs,
        PointsRaceRanking(rs, manual_dqs, manual_declass, manual_exclusions),
        league_rank_points, manual_dqs, manual_exclusions))

\* The per-category configuration a race document names for category, or
\* None: eventConfiguration (multi mode) before singleModeCategories.
CategoryConfig(race_data, category) ==
    LET multi == {k \in DOMAIN race_data.eventConfiguration :
                     race_data.eventConfiguration[k].customCategory = category}
        single == {k \in DOMAIN race_data.singleModeCategories :
                      race_data.singleModeCategories[k].category = category}
    IN  IF race_data.eventMode = "multi" /\ multi # {}
        THEN Some(race_data.eventConfiguration[
                      CHOOSE k \in multi : \A m \in multi : k <= m])
        ELSE IF single # {}
        THEN Some(race_data.singleModeCategories[
                      CHOOSE k \in single : \A m \in single : k <= m])
        ELSE None

\* LeagueEngine._get_category_sprints
GetCategorySprints(race_data, category) ==
    LET cfg == CategoryConfig(race_data, category)
    IN  IF cfg # None THEN cfg[1].sprints ELSE race_data.sprints

\* LeagueEngine._get_category_segment_type; "" is the absent segmentType.
GetCategorySegmentType(race_data, category) ==
    LET cfg == CategoryConfig(race_data, category)
    IN  IF cfg # None /\ cfg[1].segmentType # "" THEN cfg[1].segmentType
        ELSE race_data.segmentType

\* The split list the engine ranks a time trial by: configured order kept.
EngineSplits(race_data, category) ==
    IF GetCategorySegmentType(race_data, category) = "split"
    THEN GetCategorySprints(race_data, category)
    ELSE One({Filter(sprints, {i \in DOMAIN sprints : sprints[i].type = "split"})
              : sprints \in {GetCategorySprints(race_data, category)}})

\* LeagueEngine._calculate_time_trial_league_points
EngineTimeTrialLeaguePoints(rs, race_data, category, league_rank_points, manual_dqs, manual_declass, manual_exclusions) ==
    DictOf(RankingWrites(rs,
        TimeTrialRanking(rs, EngineSplits(race_data, category),
                         manual_dqs, manual_declass, manual_exclusions),
        league_rank_points, manual_dqs, manual_exclusions))

\* The league points of a race without the riders on manualDQs.
CalculateRaceLeaguePointsNoDq(st, rs, race_data, category, race_type, manual_dqs, manual_declass, manual_exclusions) ==
    LET m == IF st.leagueRankPoints = <<>>
             THEN RawLeaguePoints(rs, st.finishPoints, manual_dqs, manual_declass,
                                  manual_exclusions)
             ELSE IF race_type = "time-trial"
             THEN EngineTimeTrialLeaguePoints(rs, race_data, category, st.leagueRankPoints,
                                              manual_dqs, manual_declass, manual_exclusions)
             ELSE IF race_type = "scratch"
             THEN EngineScratchLeaguePoints(rs, st.leagueRankPoints,
                                            manual_dqs, manual_declass, manual_exclusions)
             ELSE EnginePointsRaceLeaguePoints(rs, st.leagueRankPoints,
                                               manual_dqs, manual_declass, manual_exclusions)
    IN  [z \in DOMAIN m \ manual_dqs |-> m[z]]

\* LeagueEngine._calculate_race_league_points: zid -> points; a zid that is
\* not in the domain is a rider that is not ranked (None).
CalculateRaceLeaguePoints(st, rs, race_data, category, race_type, manual_dqs, manual_declass, manual_exclusions) ==
    IF st.leagueRankPoints = <<>>
    THEN RawLeaguePoints(rs, st.finishPoints, manual_dqs, manual_declass,
                         manual_exclusions)
    ELSE IF race_type = "time-trial"
    THEN EngineTimeTrialLeaguePoints(rs, race_data, category, st.leagueRankPoints,
                                     manual_dqs, manual_declass, manual_exclusions)
    ELSE IF race_type = "scratch"
    THEN EngineScratchLeaguePoints(rs, st.leagueRankPoints,
                                   manual_dqs, manual_declass, manual_exclusions)
    ELSE EnginePointsRaceLeaguePoints(rs, st.leagueRankPoints,
                                      manual_dqs, manual_declass, manual_exclusions)


---------------------------------------------------------------------------
(* LeagueEngine: race date *)

\* A date or startTime value of a document is [day, time]: day 0 is a value
\* that holds no date (absent, not parseable or a time of day only), time 0
\* is a value without a time component.  [0, 0] is the absent value.  A
\* parsed datetime is the pair <<day, time>>.
NoDate == [day |-> 0, time |-> 0]

\* LeagueEngine._parse_dt: None when there is no date to parse.
ParseDt(value) == IF value.day > 0 THEN Some(<<value.day, value.time>>) ELSE None

\* a >= b of two datetimes
DtGeq(a, b) == a[1] > b[1] \/ (a[1] = b[1] /\ a[2] >= b[2])

\* times.sort(); times[0] over the startTime values of eventConfiguration
EarliestStartTime(race_data) ==
    LET times == {race_data.eventConfiguration[k].startTime :
                     k \in DOMAIN race_data.eventConfiguration} \ {NoDate}
    IN  IF times = {} THEN NoDate
        ELSE CHOOSE t \in times : \A u \in times : DtGeq(<<u.day, u.time>>, <<t.day, t.time>>)

\* LeagueEngine._get_race_datetime
GetRaceDatetime(race_data) ==
    LET parsed_date == ParseDt(race_data.date)
        start_time == IF race_data.startTime # NoDate THEN race_data.startTime
                      ELSE EarliestStartTime(race_data)
    IN  IF parsed_date # None /\ race_data.date.time > 0 THEN parsed_date
        ELSE IF start_time # NoDate /\ ParseDt(start_time) # None
        THEN ParseDt(start_time)
        ELSE IF start_time # NoDate /\ parsed_date # None
        THEN Some(<<race_data.date.day, start_time.time>>)
        ELSE parsed_date

---------------------------------------------------------------------------
(* LeagueEngine: standings *)

\* The dict {}: a race document none of whose fields is present, the id
\* ("" is the absent id) included.
EmptyDoc ==
    [id |-> "", date |-> NoDate, startTime |-> NoDate,
     type |-> "", segmentType |-> "", sprints |-> <<>>,
     eventMode |-> "", eventConfiguration |-> <<>>, singleModeCategories |-> <<>>,
     manualDQs |-> {}, manualDeclassifications |-> {},
     manualExclusions |-> {}, results |-> EmptyMap]

\* calculate_standings called without override arguments.
NoOverride == [id |-> "", data |-> None]

\* The override data used only for a stored race that has results.
EffectiveRaceIfResults(rd, override_race_id, override_race_data) ==
    IF /\ override_race_id # "" /\ rd.id = override_race_id
       /\ override_race_data # None /\ override_race_data[1] # EmptyDoc
       /\ rd.results # EmptyMap
    THEN override_race_data[1]
    ELSE rd

\* The race data the standings use for stored race rd: the override data
\* when the ids match and override data is given that is not the empty
\* dict.  "" is no override id.
EffectiveRace(rd, override_race_id, override_race_data) ==
    IF /\ override_race_id # "" /\ rd.id = override_race_id
       /\ override_race_data # None /\ override_race_data[1] # EmptyDoc
    THEN override_race_data[1]
    ELSE rd

\* What one race adds to the ledgers of a category, in rider order.
RaceContributions(st, race_id, rd0, category) ==
    One({One({One({
        AsTuple([k \in DOMAIN counted |->
            [zid |-> Str(rs[counted[k]].zwiftId),
             name |-> rs[counted[k]].name,
             raceId |-> race_id,
             points |-> league_points_map[Str(rs[counted[k]].zwiftId)],
             race_date |-> race_date]])
        : counted \in {SelectIdx(Len(rs),
                          {i \in DOMAIN rs :
                              /\ Str(rs[i].zwiftId) \notin StrSet(rd.manualExclusions)
                              /\ Str(rs[i].zwiftId) \in DOMAIN league_points_map})}})
        : league_points_map \in
              {CalculateRaceLeaguePoints(st, rs, rd, category, rd.type,
                   StrSet(rd.manualDQs), StrSet(rd.manualDeclassifications),
                   StrSet(rd.manualExclusions))},
          race_date \in {GetRaceDatetime(rd)}})
        : rd \in {rd0}, rs \in {rd0.results[category]}})

RECURSIVE CategoryContributions(_, _, _, _, _)
\* The contributions of all races to one category, in race order.
CategoryContributions(st, races0, override_race_id, override_race_data, category) ==
    One({IF races = <<>> THEN <<>>
         ELSE One({(IF category \in DOMAIN rd.results
                    THEN RaceContributions(st, Head(races).id, rd, category)
                    ELSE <<>>)
                   \o CategoryContributions(st, Tail(races), override_race_id,
                                            override_race_data, category)
                   : rd \in {EffectiveRace(Head(races), override_race_id,
                                           override_race_data)}})
         : races \in {races0}})

\* The entry after one more counted race, with the race supplied last taken
\* as the latest whatever its date.
UpdateEntryLastSupplied(entry, c) ==
    [entry EXCEPT
        !.totalPoints = @ + c.points,
        !.raceCount = @ + 1,
        !.results = Append(@, [raceId |-> c.raceId, points |-> c.points]),
        !.lastRaceDate = IF c.race_date # None THEN c.race_date ELSE @,
        !.lastRacePoints = IF c.race_date # None THEN c.points ELSE @]

\* The entry of a rider after one more counted race.
UpdateEntry(entry, c) ==
    LET newer == \/ entry.lastRaceDate = None
                 \/ DtGeq(c.race_date[1], entry.lastRaceDate[1])
    IN  [entry EXCEPT
            !.totalPoints = @ + c.points,
            !.raceCount = @ + 1,
            !.results = Append(@, [raceId |-> c.raceId, points |-> c.points]),
            !.lastRaceDate = IF c.race_date # None /\ newer THEN c.race_date ELSE @,
            !.lastRacePoints = IF c.race_date # None /\ newer THEN c.points ELSE @]

NewEntry(c) ==
    [zwiftId |-> c.zid, name |-> c.name, totalPoints |-> 0, raceCount |-> 0,
     results |-> <<>>, lastRacePoints |-> 0, lastRaceDate |-> None]

RECURSIVE Accumulate(_, _)
\* league_table[category] as the list of its entries in insertion order.
Accumulate(table0, contribs0) ==
    One({IF contribs = <<>> THEN table
         ELSE LET c == Head(contribs)
                  at == {k \in DOMAIN table : table[k].zwiftId = c.zid}
              IN  Accumulate(IF at = {}
                             THEN Append(table, UpdateEntry(NewEntry(c), c))
                             ELSE [table EXCEPT
                                      ![CHOOSE k \in at : TRUE] = UpdateEntry(@, c)],
                             Tail(contribs))
         : table \in {table0}, contribs \in {contribs0}})

\* results_list[:n], also for a negative n
Slice(s, n) ==
    LET m == IF n >= 0 THEN (IF n < Len(s) THEN n ELSE Len(s))
             ELSE (IF Len(s) + n > 0 THEN Len(s) + n ELSE 0)
    IN  SubSeq(s, 1, m)

\* The results sorted, totalPoints left as accumulated over all races.
BestRacesSumAll(entry, best_races_count) ==
    [entry EXCEPT !.results =
        StableSortReversed(entry.results,
                           [k \in DOMAIN entry.results |-> <<entry.results[k].points>>])]

\* The results sorted by points ascending before the slice.
BestRacesAscending(entry, best_races_count) ==
    One({One({[entry EXCEPT !.results = results_list,
                            !.totalPoints = SumSeq(AsTuple([k \in DOMAIN best_results |->
                                                              best_results[k].points]))]
              : best_results \in {Slice(results_list, best_races_count)}})
         : results_list \in
               {StableSort(entry.results,
                           [k \in DOMAIN entry.results |-> <<entry.results[k].points>>])}})

\* "Apply Best X Calculation": the results sorted by points descending, and
\* totalPoints the sum of the first bestRacesCount of them.
BestRaces(entry, best_races_count) ==
    One({One({[entry EXCEPT !.results = results_list,
                            !.totalPoints = SumSeq(AsTuple([k \in DOMAIN best_results |->
                                                              best_results[k].points]))]
              : best_results \in {Slice(results_list, best_races_count)}})
         : results_list \in
               {StableSortReversed(entry.results,
                    [k \in DOMAIN entry.results |-> <<entry.results[k].points>>])}})

\* The sort on totalPoints alone.
SortStandingsTotalOnly(entries) ==
    StableSortReversed(entries,
        [k \in DOMAIN entries |-> <<entries[k].totalPoints>>])

\* sorted_riders.sort(key=(totalPoints, lastRacePoints), reverse=True)
SortStandings(entries) ==
    StableSortReversed(entries,
        [k \in DOMAIN entries |-> <<entries[k].totalPoints, entries[k].lastRacePoints>>])

\* The categories of the races that are not skipped for empty results.
StandingsCategories(races, override_race_id, override_race_data) ==
    UNION {DOMAIN EffectiveRace(races[k], override_race_id, override_race_data).results :
              k \in DOMAIN races}

\* LeagueEngine.calculate_standings
calculate_standings(st, races, override_race_id, override_race_data) ==
    [category \in StandingsCategories(races, override_race_id, override_race_data) |->
        One({SortStandings([k \in DOMAIN table |->
                               BestRaces(table[k], st.bestRacesCount)])
             : table \in {Accumulate(<<>>,
                              CategoryContributions(st, races, override_race_id,
                                                    override_race_data, category))}})]


---------------------------------------------------------------------------
(* Inputs *)

Names == <<"A", "B", "C", "D", "E", "F", "G", "H", "I">>

\* The zwiftId a rider list holds for rider n, and the id a manual list
\* holds for rider n: integers and strings both occur in the documents.
RiderId(n) == IF n % 2 = 0 THEN IntId(n) ELSE StrId(n)
ManualId(n) == IF n % 3 = 1 THEN IntId(n) ELSE StrId(n)

\* A rider as the fetcher delivers it; sd is the sprintData it carries.
FreshRider(n, ft, sd) ==
    [zwiftId |-> RiderId(n), name |-> Names[n], finishTime |-> ft,
     disqualified |-> FALSE, declassified |-> FALSE,
     finishRank |-> 0, finishPoints |-> 0, sprintPoints |-> 0, totalPoints |-> 0,
     sprintData |-> sd, sprintDetails |-> EmptyMap, leaguePoints |-> None]

Crossing(wt, t) == [time |-> t, worldTime |-> wt, rank |-> 0]

Sprint(id, count, key, type) == [id |-> id, count |-> count, key |-> key, type |-> type]

\* A race document before any result is stored.
Race(id, day, type, segmentType, sprints, dqs, declass, excl) ==
    [id |-> id, date |-> [day |-> day, time |-> 0], startTime |-> NoDate,
     type |-> type, segmentType |-> segmentType, sprints |-> sprints,
     eventMode |-> "", eventConfiguration |-> <<>>, singleModeCategories |-> <<>>,
     manualDQs |-> dqs, manualDeclassifications |-> declass,
     manualExclusions |-> excl, results |-> EmptyMap]

Settings(fp, sp, lrp, best) ==
    [finishPoints |-> fp, sprintPoints |-> sp, leagueRankPoints |-> lrp,
     bestRacesCount |-> best]

FinishTimes == {0, 1, 2}
FinishSchemes == {<<>>, <<4>>, <<5, 3, 1>>, <<1, 3, 5>>}
SprintSchemes == {<<3, 1>>, <<2>>}
LeagueRankSchemes == {<<3, 2>>, <<4>>}
RaceTypes == {"scratch", "points", "time-trial"}

ManualSets(n) == {{ManualId(i) : i \in S} : S \in SUBSET (1..n)}

\* Rider lists of n riders that differ in their finish times only.
FinishLists(n) ==
    {[i \in 1..n |-> FreshRider(i, ft[i], EmptyMap)] : ft \in [1..n -> FinishTimes]}

\* Finish family: finish times, finish schemes and the three manual lists.
InitFinish ==
    /\ \E n \in 0..MaxRiders :
          /\ riders \in FinishLists(n)
          /\ \E dqs \in ManualSets(n), declass \in ManualSets(n), excl \in ManualSets(n) :
                race_config = Race("r1", 1, "scratch", "sprint", <<>>, dqs, declass, excl)
    /\ \E fp \in FinishSchemes : settings = Settings(fp, <<3, 1>>, <<>>, 5)

\* The sprintData a rider can carry: crossings of segment s1 on lap 1
\* (early or late at the line; the late rider rode the segment faster) and
\* on lap 2.
SprintDatas ==
    {EmptyMap,
     [k \in {"s1_1"} |-> Crossing(1, 2)],
     [k \in {"s1_1"} |-> Crossing(2, 1)],
     [k \in {"s1_1", "s1_2"} |-> IF k = "s1_1" THEN Crossing(1, 2) ELSE Crossing(3, 1)]}

\* No sprint configured (the keys take the race's segmentType), or lap 1
\* configured as a split and lap 2 as a sprint.
SprintConfigs ==
    {<<>>,
     <<Sprint("s1", 1, "", "split"), Sprint("s1", 2, "", "sprint")>>}

\* Later riders of the list finish earlier, rider 3 does not finish.
SprintFamilyFinishTime(i) == (3 - i) % 3

\* Sprint family: sprint crossings, sprint schemes, segment types, and the
\* DQ and declassification lists.
InitSprint ==
    /\ \E n \in 1..MaxRiders :
          /\ \E sd \in [1..n -> SprintDatas] :
                riders = [i \in 1..n |-> FreshRider(i, SprintFamilyFinishTime(i), sd[i])]
          /\ \E dqs \in ManualSets(n), declass \in ManualSets(n),
                segmentType \in {"sprint", "split"}, sprints \in SprintConfigs :
                race_config = Race("r1", 1, "points", segmentType, sprints,
                                   dqs, declass, {})
    /\ \E sp \in SprintSchemes : settings = Settings(<<>>, sp, <<>>, 5)

\* DQ and declassification lists with no rider in both.
DisjointManualSets(n) ==
    {m \in ManualSets(n) \X ManualSets(n) : StrSet(m[1]) \cap StrSet(m[2]) = {}}

\* Ranking family, scratch and points races with leagueRankPoints
\* configured: finish times, a lap-1 sprint crossing or none, and a rider is
\* valid, DQ or declassified.
InitRank ==
    /\ \E n \in 1..MaxRiders :
          /\ \E ft \in [1..n -> FinishTimes],
                sd \in [1..n -> {EmptyMap, [k \in {"s1_1"} |-> Crossing(1, 2)]}] :
                riders = [i \in 1..n |-> FreshRider(i, ft[i], sd[i])]
          /\ \E m \in DisjointManualSets(n), type \in {"scratch", "points"} :
                race_config = Race("r1", 1, type, "sprint", <<>>, m[1], m[2], {})
    /\ \E lrp \in LeagueRankSchemes : settings = Settings(<<5, 3, 1>>, <<3, 1>>, lrp, 5)

\* The course of the time trial passes the split of segment s2, then the
\* split of segment s1.
TimeTrialSplits == <<Sprint("s2", 1, "s2_1", ""), Sprint("s1", 1, "s1_1", "")>>

\* A time-trial rider finished (no split data needed to rank it), or did
\* not finish and reached no split, the first split (early or late) or both.
TimeTrialRiders(i) ==
    {FreshRider(i, ft, EmptyMap) : ft \in {1, 2}}
    \cup {FreshRider(i, 0, sd) : sd \in
            {EmptyMap,
             [k \in {"s2_1"} |-> Crossing(1, 1)],
             [k \in {"s2_1"} |-> Crossing(2, 1)],
             [k \in {"s2_1", "s1_1"} |-> IF k = "s2_1" THEN Crossing(2, 1)
                                          ELSE Crossing(3, 1)]}}

\* Ranking family, time trials with leagueRankPoints configured.
InitTimeTrial ==
    /\ \E n \in 1..MaxRiders :
          /\ \E rs \in [1..n -> UNION {TimeTrialRiders(i) : i \in 1..n}] :
                /\ \A i \in 1..n : rs[i] \in TimeTrialRiders(i)
                /\ riders = rs
          /\ \E m \in DisjointManualSets(n) :
                race_config = Race("r1", 1, "time-trial", "split", TimeTrialSplits,
                                   m[1], m[2], {})
    /\ \E lrp \in LeagueRankSchemes : settings = Settings(<<5, 3, 1>>, <<>>, lrp, 5)

\* Three riders cross the line of sprint s1_1, each at 100 or at 105 (the
\* later arrival rode the segment faster); any of them can be disqualified,
\* rider 3 can be declassified; the sprint scheme is [5, 3, 2].
InitSprintTie ==
    /\ \E wt \in [1..3 -> {100, 105}] :
          riders = [i \in 1..3 |->
                       FreshRider(i, SprintFamilyFinishTime(i),
                                  [k \in {"s1_1"} |->
                                      Crossing(wt[i], IF wt[i] = 100 THEN 30 ELSE 20)])]
    /\ \E dqs \in ManualSets(3), declass \in {{}, {ManualId(3)}} :
          race_config = Race("r1", 1, "points", "sprint",
                             <<Sprint("s1", 1, "", "")>>, dqs, declass, {})
    /\ settings = Settings(<<>>, <<5, 3, 2>>, <<>>, 5)

\* Rider 1 finishes in 600000 ms, rider 2 does not finish, rider 3 finishes
\* in 580000 ms; the finish scheme is [10, 7, 5, 3, 1].
InitFinishExample ==
    /\ riders = <<FreshRider(1, 600000, EmptyMap), FreshRider(2, 0, EmptyMap),
                  FreshRider(3, 580000, EmptyMap)>>
    /\ race_config = Race("r1", 1, "scratch", "sprint", <<>>, {}, {}, {})
    /\ settings = Settings(<<10, 7, 5, 3, 1>>, <<>>, <<>>, 5)

\* The three splits S1, S2, S3 of the example course, under keys whose
\* (count, key) order is the course order, or is S2, S1, S3.
ExampleCourses ==
    {<<"s1_1", "s1_2", "s2_2">>, <<"s2_1", "s1_1", "s1_2">>}

\* The split configured under a key of the model.
SplitOfKey(key, type) ==
    Sprint(IF key \in {"s1_1", "s1_2"} THEN "s1" ELSE "s2",
           IF key \in {"s1_1", "s2_1"} THEN 1 ELSE 2, key, type)

\* The worldTime at which the riders of the example reach S1, S2 and S3:
\* A stops after S2 (at 500), B after S3 (at 900), C after S2 (at 400).
ExampleCrossings == <<<<300, 500>>, <<200, 600, 900>>, <<350, 400>>>>

\* Three non-finishers of a time trial over the example course; the splits
\* are split-type by the race's segmentType or by their own type; league
\* rank points are configured or not.
InitTimeTrialExample ==
    /\ \E course \in ExampleCourses, by_race \in BOOLEAN :
          /\ riders = [i \in 1..3 |->
                FreshRider(i, 0, [key \in {course[k] : k \in DOMAIN ExampleCrossings[i]} |->
                    Crossing(ExampleCrossings[i][CHOOSE k \in 1..3 : course[k] = key], 1)])]
          /\ race_config =
                Race("r1", 1, "time-trial", IF by_race THEN "split" ELSE "sprint",
                     [k \in 1..3 |-> SplitOfKey(course[k], IF by_race THEN "" ELSE "split")],
                     {}, {}, {})
    /\ \E lrp \in {<<3, 2, 1>>, <<>>} : settings = Settings(<<5, 3, 1>>, <<>>, lrp, 5)

\* Malformed configuration: a race of a type that is none of scratch,
\* points and time-trial with leagueRankPoints configured, or a negative
\* bestRacesCount.
InitMalformed ==
    /\ riders \in FinishLists(2)
    /\ \E cfg \in {[type |-> "handicap", lrp |-> <<3, 2>>, best |-> 5],
                    [type |-> "scratch", lrp |-> <<>>, best |-> -1]} :
          /\ race_config = Race("r1", 1, cfg.type, "sprint", <<>>, {}, {}, {})
          /\ settings = Settings(<<5, 3, 1>>, <<>>, cfg.lrp, cfg.best)

InitOneRace ==
    /\ \/ InitFinish
       \/ InitSprint
       \/ InitRank
       \/ InitTimeTrial
       \/ InitSprintTie
       \/ InitFinishExample
       \/ InitTimeTrialExample
       \/ InitMalformed
    /\ fetched = riders
    /\ subgroup = "A"
    /\ phase = "fetched"
    /\ override = NoOverride
    /\ calls = <<>>
    /\ segment_efforts_map = NoEfforts
    /\ races_data = <<>>
    /\ standings = EmptyMap

Init == InitOneRace

---------------------------------------------------------------------------
(* Inputs of a league of several races *)

RaceIds == <<"r1", "r2", "r3", "r4", "r5", "r6", "r7", "r8", "r9">>

\* The races are not read in the order of their dates.
RaceDay(k) == ((2 * k) % 3) + 1

\* What the k-th race of the league can be: two riders of category A in
\* either finish order, rider 1 not finishing, rider 1 disqualified or
\* declassified, or rider 2 excluded.  The race document holds the date
\* RaceDay(k); the race won by rider 2 holds the date of the first race, the
\* race rider 1 does not finish holds no date, and the race with rider 1
\* disqualified holds a startTime (a time of day) besides its date.
LeagueRaceInputs(k) ==
    LET two(ft1, ft2) == <<FreshRider(1, ft1, EmptyMap), FreshRider(2, ft2, EmptyMap)>>
        race(dqs, declass, excl) ==
            Race(RaceIds[k], RaceDay(k), "scratch", "sprint", <<>>, dqs, declass, excl)
    IN  {[riders |-> two(1, 2), config |-> race({}, {}, {})],
         [riders |-> two(2, 1),
          config |-> [race({}, {}, {}) EXCEPT !.date.day = RaceDay(1)]],
         [riders |-> two(0, 1), config |-> [race({}, {}, {}) EXCEPT !.date = NoDate]],
         [riders |-> two(1, 2),
          config |-> [race({ManualId(1)}, {}, {}) EXCEPT !.startTime.time = 1]],
         [riders |-> two(1, 2), config |-> race({}, {ManualId(1)}, {})],
         [riders |-> two(1, 2), config |-> race({}, {}, {ManualId(2)})]}

\* The k-th race of the six-race season: six riders, rider 1 finishes k-th.
SeasonRiders(k) ==
    AsTuple([i \in 1..6 |->
                FreshRider(i, IF i = 1 THEN 10 * k ELSE 10 * (i - 1) + 5, EmptyMap)])

SeasonRace(k) == Race(RaceIds[k], k, "scratch", "sprint", <<>>, {}, {}, {})

SeasonSettings == Settings(<<20, 18, 15, 10, 5, 0>>, <<>>, <<>>, 5)

\* The race document after its results are calculated and stored.
StoredRace(st, cfg, rs, category) ==
    LET scored == calculate_results(rs, cfg, st.finishPoints, st.sprintPoints)
    IN  [ConfigAfterLeaguePoints(cfg, st.leagueRankPoints) EXCEPT
            !.results = [c \in {category} |->
                            calculate_league_points(scored, cfg, st.leagueRankPoints)]]

\* A league whose first race is fetched.
InitNewLeague ==
    /\ \E best \in 0..MaxBest, lrp \in {<<>>, <<3, 2>>} :
          settings = Settings(<<5, 3, 1>>, <<>>, lrp, best)
    /\ \E inp \in LeagueRaceInputs(1) :
          /\ riders = inp.riders
          /\ race_config = inp.config
    /\ races_data = <<>>
    /\ standings = EmptyMap

\* The six-race season with five races stored and the sixth fetched.
InitSeason ==
    /\ settings = SeasonSettings
    /\ riders = SeasonRiders(6)
    /\ race_config = SeasonRace(6)
    /\ races_data = AsTuple([k \in 1..5 |->
                        StoredRace(SeasonSettings, SeasonRace(k), SeasonRiders(k), "A")])
    /\ standings = calculate_standings(settings, races_data, "", None)

InitLeague ==
    /\ InitNewLeague \/ InitSeason
    /\ fetched = riders
    /\ subgroup = "A"
    /\ phase = "fetched"
    /\ override = NoOverride
    /\ calls = <<>>
    /\ segment_efforts_map = NoEfforts

---------------------------------------------------------------------------
(* Operations *)

\* The riders of the next race are fetched.
FetchRace ==
    /\ phase = "saved"
    /\ Len(races_data) < MaxRaces
    /\ \E inp \in LeagueRaceInputs(Len(races_data) + 1) :
          /\ fetched' = inp.riders
          /\ riders' = inp.riders
          /\ race_config' = inp.config
    /\ phase' = "fetched"
    /\ UNCHANGED <<settings, subgroup, races_data, standings, override, calls, segment_efforts_map>>

\* RaceScorer.calculate_results on the fetched riders of the race, with the
\* segment efforts fetched for it if there are any.
CalculateResults ==
    /\ phase = "fetched"
    /\ riders' = IF segment_efforts_map = NoEfforts
                 THEN calculate_results(riders, race_config,
                                        settings.finishPoints, settings.sprintPoints)
                 ELSE CalculateResultsFresh(riders, race_config, segment_efforts_map,
                                            settings.finishPoints, settings.sprintPoints)
    /\ phase' = "scored"
    /\ UNCHANGED <<settings, race_config, fetched, subgroup, races_data, standings, override, calls, segment_efforts_map>>

\* RaceScorer.calculate_league_points on the scored riders.
CalculateLeaguePoints ==
    /\ phase = "scored"
    /\ riders' = calculate_league_points(riders, race_config, settings.leagueRankPoints)
    /\ race_config' = ConfigAfterLeaguePoints(race_config, settings.leagueRankPoints)
    /\ phase' = "ranked"
    /\ UNCHANGED <<settings, fetched, subgroup, races_data, standings, override, calls, segment_efforts_map>>

\* The results are stored in the race document and the standings are
\* recalculated from the stored races.
SaveRace ==
    /\ phase = "ranked"
    /\ races_data' = Append(races_data,
                            [race_config EXCEPT !.results = [c \in {subgroup} |-> riders]])
    /\ standings' = calculate_standings(settings, races_data', "", None)
    /\ phase' = "saved"
    /\ UNCHANGED <<settings, race_config, fetched, riders, subgroup, override, calls, segment_efforts_map>>

\* PUT /races/<race_id>: an admin puts rider 1 on the manualExclusions of
\* the race stored last, whose manual lists were empty; the stored results
\* and the stored standings stay as they are.
UpdateRace ==
    /\ phase = "saved"
    /\ LET rd == races_data[Len(races_data)]
       IN  /\ rd.manualDQs = {}
           /\ rd.manualDeclassifications = {}
           /\ rd.manualExclusions = {}
           /\ \E k \in DOMAIN rd.results[subgroup] :
                 Str(rd.results[subgroup][k].zwiftId) = Str(ManualId(1))
           /\ races_data' = [races_data EXCEPT
                                ![Len(races_data)].manualExclusions = {ManualId(1)}]
    /\ phase' = "edited"
    /\ UNCHANGED <<settings, race_config, fetched, riders, subgroup, standings, override, calls, segment_efforts_map>>

\* LeagueEngine.calculate_standings over the stored races after an edit.
RecalculateStandings ==
    /\ phase = "edited"
    /\ standings' = calculate_standings(settings, races_data, "", None)
    /\ phase' = "saved"
    /\ UNCHANGED <<settings, race_config, fetched, riders, subgroup, races_data, override, calls, segment_efforts_map>>

\* The race document as it is stored while the race is processed: without
\* results, or with the results of an earlier run that found rider 1 only.
StoredBefore(cfg, c, rs) ==
    {[cfg EXCEPT !.results = EmptyMap],
     [cfg EXCEPT !.results = [x \in {c} |-> SubSeq(rs, 1, 1)]]}

\* The fresh data of the race: the document with the results just computed.
FreshData(cfg, c, rs) == [cfg EXCEPT !.results = [x \in {c} |-> rs]]

\* The override arguments a caller hands to calculate_standings for the race
\* it has just scored: the id of the race with the fresh data, with the
\* fresh data as a dict without 'id', or with the empty dict.
OverrideArguments(cfg, c, rs) ==
    {[id |-> cfg.id, data |-> Some(FreshData(cfg, c, rs))],
     [id |-> cfg.id, data |-> Some([FreshData(cfg, c, rs) EXCEPT !.id = ""])],
     [id |-> cfg.id, data |-> Some(EmptyDoc)]}

\* LeagueEngine.calculate_standings(races_data, override_race_id,
\* override_race_data): the standings are calculated while the stored race
\* document does not show the results just computed.
StandingsWithOverride ==
    /\ phase = "ranked"
    /\ \E stored \in StoredBefore(race_config, subgroup, riders),
          args \in OverrideArguments(race_config, subgroup, riders) :
          /\ races_data' = Append(races_data, stored)
          /\ override' = args
          /\ standings' = calculate_standings(settings, races_data', args.id, args.data)
    /\ phase' = "overridden"
    /\ UNCHANGED <<settings, race_config, fetched, riders, subgroup, calls, segment_efforts_map>>

Next ==
    \/ CalculateResults
    \/ CalculateLeaguePoints
    \/ SaveRace
    \/ UpdateRace
    \/ RecalculateStandings

Spec == Init /\ [][Next]_vars

NextLeague == FetchRace \/ StandingsWithOverride \/ Next

SpecLeague == InitLeague /\ [][NextLeague]_vars

---------------------------------------------------------------------------
(* ResultsProcessor.process_race_results: concurrent calls for one race *)

Procs == {1, 2}

\* The subgroups of the Zwift event linked to the race.
SubgroupLabels == {"A", "B"}

\* What get_event_results returns for a subgroup at the time of a call: the
\* first n riders have finished, rider k after 10 * k; the entries come
\* latest first.
RawResults ==
    {[k \in 1..n |-> [zwiftId |-> StrId(n + 1 - k), name |-> Names[n + 1 - k],
                      time |-> 10 * (n + 1 - k)]] : n \in 1..MaxRiders}

\* _fetch_finishers, fetch_mode 'finishers', every rider registered.
FetchFinishers(raw) ==
    StableSort(raw, [k \in DOMAIN raw |-> <<raw[k].time>>])

\* _calculate_points_and_sprints for a source without sprints and a race
\* without manual lists: rank and finish points in list order, then the
\* list sorted by totalPoints, highest first.
CalculatePointsAndSprints(finishers, finish_points_scheme) ==
    LET res == [k \in DOMAIN finishers |->
                  LET points == IF finishers[k].time > 0
                                THEN SchemeAt(finish_points_scheme, k - 1) ELSE 0
                  IN  [zwiftId |-> finishers[k].zwiftId, name |-> finishers[k].name,
                       finishTime |-> finishers[k].time,
                       finishRank |-> IF finishers[k].time > 0 THEN k ELSE 0,
                       finishPoints |-> points, sprintPoints |-> 0,
                       totalPoints |-> points,
                       disqualified |-> FALSE, declassified |-> FALSE]]
    IN  StableSortReversed(res, [k \in DOMAIN res |-> <<res[k].totalPoints>>])

\* The labels a call with the given category_filter processes ("" is None).
FilteredLabels(category_filter) ==
    IF category_filter \in {"", "All"} THEN SubgroupLabels
    ELSE {c \in SubgroupLabels : c = category_filter}

\* The race document two calls refresh: stored without results, or with
\* results of category A from an earlier refresh.
RefreshRace ==
    Race("r1", 1, "scratch", "sprint", <<>>, {}, {}, {})

InitRefresh ==
    /\ settings = Settings(<<5, 3, 1>>, <<>>, <<>>, 5)
    /\ race_config = RefreshRace
    /\ fetched = <<>> /\ riders = <<>>
    /\ phase = "refresh" /\ subgroup = "A"
    /\ override = NoOverride
    /\ segment_efforts_map = NoEfforts
    /\ \E old \in {EmptyMap,
                    [c \in {"A"} |-> CalculatePointsAndSprints(
                                         FetchFinishers(CHOOSE raw \in RawResults : Len(raw) = 1),
                                         settings.finishPoints)]} :
          races_data = <<[RefreshRace EXCEPT !.results = old]>>
    /\ standings = EmptyMap
    /\ \E filter \in [Procs -> {"A", "B", "All"}] :
          calls = [p \in Procs |->
                      [pc |-> "start", race |-> 1, category_filter |-> filter[p],
                       race_data |-> EmptyDoc, all_results |-> EmptyMap, docs |-> <<>>]]

\* race_doc = ...get(); race_data = race_doc.to_dict()
ReadRace(p) ==
    /\ calls[p].pc = "start"
    /\ calls' = [calls EXCEPT ![p].pc = "read",
                              ![p].race_data = races_data[calls[p].race]]
    /\ UNCHANGED <<settings, race_config, fetched, riders, phase, races_data, subgroup,
                   standings, override, segment_efforts_map>>

\* Steps 2 to 5: all_results starts as the results read with the document;
\* every subgroup the filter lets through is fetched and scored, and its
\* batch replaces the entry of its label in all_results.
ProcessSources(p) ==
    /\ calls[p].pc = "read"
    /\ \E raw \in RawResults :
          LET labels == FilteredLabels(calls[p].category_filter)
              old == calls[p].race_data.results
              batch == CalculatePointsAndSprints(FetchFinishers(raw),
                                                 settings.finishPoints)
          IN  calls' = [calls EXCEPT
                           ![p].pc = "processed",
                           ![p].all_results =
                               [c \in DOMAIN old \cup labels |->
                                   IF c \in labels THEN batch ELSE old[c]]]
    /\ UNCHANGED <<settings, race_config, fetched, riders, phase, races_data, subgroup,
                   standings, override, segment_efforts_map>>

\* The results map of the call merged into the stored one label by label.
WriteResultsMerged(p) ==
    /\ calls[p].pc = "processed"
    /\ races_data' = [races_data EXCEPT ![calls[p].race].results =
                          [c \in DOMAIN @ \cup FilteredLabels(calls[p].category_filter) |->
                              IF c \in FilteredLabels(calls[p].category_filter)
                              THEN calls[p].all_results[c] ELSE @[c]]]
    /\ calls' = [calls EXCEPT ![p].pc = "written",
                              ![p].race_data.results = calls[p].all_results]
    /\ UNCHANGED <<settings, race_config, fetched, riders, phase, subgroup,
                   standings, override, segment_efforts_map>>

\* Step 6: update({'results': all_results, ...}) replaces the stored results
\* map by the map of the call; race_data['results'] = all_results.
WriteResults(p) ==
    /\ calls[p].pc = "processed"
    /\ races_data' = [races_data EXCEPT ![calls[p].race].results = calls[p].all_results]
    /\ calls' = [calls EXCEPT ![p].pc = "written",
                              ![p].race_data.results = calls[p].all_results]
    /\ UNCHANGED <<settings, race_config, fetched, riders, phase, subgroup,
                   standings, override, segment_efforts_map>>

\* Step 7: save_league_standings(race_id, race_data).  The loop of
\* calculate_league_standings reads finish_points_scheme, a name the
\* function does not define, for the first race with results: the
\* NameError is caught by process_race_results and no standings are
\* written.  Without any results the empty standings are written.
SaveLeagueStandings(p) ==
    /\ calls[p].pc = "written"
    /\ LET docs == [k \in DOMAIN races_data |->
                       IF k = calls[p].race THEN calls[p].race_data
                       ELSE races_data[k]]
       IN  standings' = IF \E k \in DOMAIN docs : docs[k].results # EmptyMap
                        THEN standings ELSE EmptyMap
    /\ calls' = [calls EXCEPT ![p].pc = "done"]
    /\ UNCHANGED <<settings, race_config, fetched, riders, phase, races_data, subgroup,
                   override, segment_efforts_map>>

NextRefresh ==
    \E p \in Procs :
        \/ ReadRace(p)
        \/ ProcessSources(p)
        \/ WriteResults(p)
        \/ SaveLeagueStandings(p)

SpecRefresh == InitRefresh /\ [][NextRefresh]_vars

---------------------------------------------------------------------------
(* ResultsProcessor.process_race_results: concurrent calls for different   *)
(* races.  Step 7 is taken in two steps, the read of the race documents    *)
(* and the write of the standings document.                                *)

\* The race document call p refreshes.
RefreshedRace(p) == Race(RaceIds[p], p, "scratch", "sprint", <<>>, {}, {}, {})

\* Each call refreshes a race of its own; a race is stored without results
\* or with the results of category A of an earlier refresh; no standings
\* are stored yet.
InitRefreshRaces ==
    /\ settings = Settings(<<5, 3, 1>>, <<>>, <<>>, 5)
    /\ race_config = RefreshRace
    /\ fetched = <<>> /\ riders = <<>>
    /\ phase = "refresh" /\ subgroup = "A"
    /\ override = NoOverride
    /\ segment_efforts_map = NoEfforts
    /\ \E old \in [Procs -> {EmptyMap,
                            [c \in {"A"} |-> CalculatePointsAndSprints(
                                FetchFinishers(CHOOSE raw \in RawResults : Len(raw) = 1),
                                settings.finishPoints)]}] :
          races_data = AsTuple([p \in 1..Cardinality(Procs) |->
                                   [RefreshedRace(p) EXCEPT !.results = old[p]]])
    /\ standings = EmptyMap
    /\ \E filter \in [Procs -> {"A", "All"}] :
          calls = [p \in Procs |->
                      [pc |-> "start", race |-> p, category_filter |-> filter[p],
                       race_data |-> EmptyDoc, all_results |-> EmptyMap, docs |-> <<>>]]

\* calculate_league_standings, docs = races_ref.stream(): the race
\* documents as they are stored when the call reads them, the race of the
\* call replaced by its override_race_data.
StreamRaces(p) ==
    /\ calls[p].pc = "written"
    /\ calls' = [calls EXCEPT
                    ![p].pc = "streamed",
                    ![p].docs = AsTuple([k \in DOMAIN races_data |->
                                    IF k = calls[p].race THEN calls[p].race_data
                                    ELSE races_data[k]])]
    /\ UNCHANGED <<settings, race_config, fetched, riders, phase, races_data, subgroup,
                   standings, override, segment_efforts_map>>

\* The loop over the documents and the write of save_league_standings.  For
\* the first race with results the loop reads finish_points_scheme, a name
\* the function does not define: the NameError is caught by
\* process_race_results and nothing is written.  When no race has results
\* the empty standings are written.
SetStandings(p) ==
    /\ calls[p].pc = "streamed"
    /\ standings' = IF \E k \in DOMAIN calls[p].docs : calls[p].docs[k].results # EmptyMap
                    THEN standings ELSE EmptyMap
    /\ calls' = [calls EXCEPT ![p].pc = "done"]
    /\ UNCHANGED <<settings, race_config, fetched, riders, phase, races_data, subgroup,
                   override, segment_efforts_map>>

NextRefreshRaces ==
    \E p \in Procs :
        \/ ReadRace(p)
        \/ ProcessSources(p)
        \/ WriteResults(p)
        \/ StreamRaces(p)
        \/ SetStandings(p)

SpecRefreshRaces == InitRefreshRaces /\ [][NextRefreshRaces]_vars

---------------------------------------------------------------------------
(* RaceScorer.calculate_results with fresh segment efforts, and on the     *)
(* riders of an earlier scoring                                            *)

\* The sprints of segment s1 a race configures: lap 1 and lap 2 (lap 2
\* under its own key), lap 2 only, lap 1 twice (as a split and under a
\* second key), or none.
EffortConfigs ==
    {<<Sprint("s1", 1, "", ""), Sprint("s1", 2, "fin", "")>>,
     <<Sprint("s1", 2, "", "")>>,
     <<Sprint("s1", 1, "", "split"), Sprint("s1", 1, "other", "")>>,
     <<>>}

\* The j-th crossing of segment s1 by athlete a: athlete a passes at
\* 10 * j + a, and rides a later lap faster.
EffortOf(a, j) == Effort(IntId(a), 10 * j + a, MaxCrossings + 2 - j)

\* The raw results of segment s1 when athlete a crosses it count[a] times:
\* athlete by athlete and lap by lap.
EffortList(count) ==
    LET pairs == {p \in (DOMAIN count) \X (1..MaxCrossings) : p[2] <= count[p[1]]}
        before(p, q) == p[1] < q[1] \/ (p[1] = q[1] /\ p[2] < q[2])
    IN  AsTuple([k \in 1..Cardinality(pairs) |->
            LET p == CHOOSE p \in pairs : Cardinality({q \in pairs : before(q, p)}) = k - 1
            IN  EffortOf(p[1], p[2])])

\* The list s, last entry first.
Reversed(s) == AsTuple([k \in DOMAIN s |-> s[Len(s) + 1 - k]])

\* The segment efforts of a race of n riders: each of them crosses s1 up to
\* MaxCrossings times, athlete n + 1, who is not on the rider list, at most
\* once;
\* the results list the crossings in either order; segment s2, which the
\* race does not configure, is in the map or not.
EffortMaps(n) ==
    {(IF with_s2 THEN <<[id |-> "s2", results |-> <<EffortOf(1, 1)>>]>> ELSE <<>>)
     \o <<[id |-> "s1",
           results |-> IF last_first THEN Reversed(EffortList(count))
                       ELSE EffortList(count)]>>
     : count \in {c \in [1..(n + 1) -> 0..MaxCrossings] : c[n + 1] <= 1},
       last_first \in BOOLEAN, with_s2 \in BOOLEAN}

\* Segment effort family: a points race whose riders finish together or one
\* after the other, with fresh segment efforts; rider 1 can be disqualified
\* and rider 2 excluded.
InitSegmentEfforts ==
    /\ \E together \in BOOLEAN :
          riders = [i \in 1..MaxRiders |->
                       FreshRider(i, IF together THEN 1 ELSE i, EmptyMap)]
    /\ \E sprints \in EffortConfigs, dqs \in {{}, {ManualId(1)}},
          excl \in {{}, {ManualId(2)}} :
          race_config = Race("r1", 1, "points", "sprint", sprints, dqs, {}, excl)
    /\ settings = Settings(<<5, 3, 1>>, <<3, 1>>, <<>>, 5)
    /\ segment_efforts_map \in EffortMaps(MaxRiders)

InitScorer ==
    /\ \/ InitSegmentEfforts
       \/ InitSprintTie /\ segment_efforts_map = NoEfforts
    /\ fetched = riders
    /\ subgroup = "A"
    /\ phase = "fetched"
    /\ override = NoOverride
    /\ calls = <<>>
    /\ races_data = <<>>
    /\ standings = EmptyMap

\* RaceScorer.calculate_results on the list an earlier call returned, with
\* the same configuration and no segment efforts.
RecalculateResults ==
    /\ phase = "scored"
    /\ fetched' = riders
    /\ segment_efforts_map' = NoEfforts
    /\ riders' = calculate_results(riders, race_config,
                                   settings.finishPoints, settings.sprintPoints)
    /\ phase' = "rescored"
    /\ UNCHANGED <<settings, race_config, subgroup, races_data, standings, override, calls>>

\* The manual lists of the race after an admin disqualifies or declassifies
\* rider 1, or clears the lists.
EditedLists(cfg) ==
    {[cfg EXCEPT !.manualDQs = @ \cup {ManualId(1)}],
     [cfg EXCEPT !.manualDeclassifications = @ \cup {ManualId(1)}],
     [cfg EXCEPT !.manualDQs = {}, !.manualDeclassifications = {}]}

\* RaceScorer.calculate_results on the list an earlier call returned, after
\* the manual lists of the race were edited.
RecalculateAfterEdit ==
    /\ phase = "scored"
    /\ \E cfg \in EditedLists(race_config) \ {race_config} :
          /\ race_config' = cfg
          /\ riders' = calculate_results(riders, cfg,
                                         settings.finishPoints, settings.sprintPoints)
    /\ fetched' = riders
    /\ segment_efforts_map' = NoEfforts
    /\ phase' = "reclassified"
    /\ UNCHANGED <<settings, subgroup, races_data, standings, override, calls>>

NextScorer ==
    \/ CalculateResults
    \/ RecalculateResults
    \/ RecalculateAfterEdit

SpecScorer == InitScorer /\ [][NextScorer]_vars

---------------------------------------------------------------------------
(* Properties *)

\* calculate_results has returned the riders of the race.
Scored == phase \in {"scored", "ranked", "saved", "edited"}

\* The ids on the manual lists of the race being scored, as strings.
DqIds == StrSet(race_config.manualDQs)
DeclassIds == StrSet(race_config.manualDeclassifications)
ExclusionIds == StrSet(race_config.manualExclusions)

\* Rider zid is on the result list of category c of the stored race rd.
AppearsIn(rd, c, zid) ==
    /\ c \in DOMAIN rd.results
    /\ \E k \in DOMAIN rd.results[c] : Str(rd.results[c][k].zwiftId) = zid

\* The data of the k-th stored race as the last calculate_standings call
\* used it.
RaceUsed(k) == EffectiveRace(races_data[k], override.id, override.data)

\* The stored races that count for rider zid in category c: the rider is on
\* the result list and not on the race's manualExclusions.
RacesOpenTo(c, zid) ==
    {k \in DOMAIN races_data :
        /\ AppearsIn(RaceUsed(k), c, zid)
        /\ zid \notin StrSet(RaceUsed(k).manualExclusions)}

\* C1: no rider whose id, as a string, is in manualExclusions is in the list
\* calculate_results returns; in the standings every {raceId, points} entry
\* of a rider is of a race that lists the rider and does not exclude it,
\* raceCount counts no other race, and a rider all of whose races exclude
\* it has no entry.
C1_ExcludedNeverAppear ==
    /\ Scored => \A k \in DOMAIN riders : Str(riders[k].zwiftId) \notin ExclusionIds
    /\ phase # "edited" =>
          \A c \in DOMAIN standings : \A e \in DOMAIN standings[c] :
              LET entry == standings[c][e]
                  open == RacesOpenTo(c, entry.zwiftId)
              IN  /\ open # {}
                  /\ entry.raceCount <= Cardinality(open)
                  /\ \A x \in DOMAIN entry.results :
                        \E k \in open : races_data[k].id = entry.results[x].raceId

\* The scorer has dropped an excluded rider of the race stored last, and an
\* earlier stored race lists a rider it excludes who has a standings entry
\* from another race.
C1_Witness ==
    /\ phase = "saved"
    /\ Len(riders) < Len(fetched)
    /\ \E k \in DOMAIN races_data : \E i \in DOMAIN races_data[k].results["A"] :
          LET zid == Str(races_data[k].results["A"][i].zwiftId)
          IN  /\ zid \in StrSet(races_data[k].manualExclusions)
              /\ \E e \in DOMAIN standings["A"] : standings["A"][e].zwiftId = zid

\* C2: after calculate_results every returned rider on manualDQs is
\* disqualified with finishPoints, sprintPoints and totalPoints 0, also when
\* the rider is on manualDeclassifications too.
C2_DisqualifiedScoreZero ==
    Scored =>
        \A k \in DOMAIN riders :
            Str(riders[k].zwiftId) \in DqIds =>
                /\ riders[k].disqualified
                /\ riders[k].finishPoints = 0
                /\ riders[k].sprintPoints = 0
                /\ riders[k].totalPoints = 0

\* A rider on both lists who finished and crossed a sprint line is scored
\* beside a valid rider who takes sprint points.
C2_Witness ==
    /\ phase = "scored"
    /\ \E k \in DOMAIN riders :
          /\ Str(riders[k].zwiftId) \in DqIds \cap DeclassIds
          /\ riders[k].finishTime > 0
          /\ \E key \in DOMAIN riders[k].sprintData :
                /\ SegmentTypeOf(race_config, key) = "sprint"
                /\ \E j \in DOMAIN riders :
                      /\ key \in DOMAIN riders[j].sprintDetails
                      /\ riders[j].sprintPoints > 0

\* calculate_league_points has run on the returned riders.
Ranked == phase \in {"ranked", "saved", "edited"}

\* Rider k of the returned list is valid: on neither manual list.
IsValid(k) == Str(riders[k].zwiftId) \notin DqIds \cup DeclassIds

\* Rider k of the returned list is declassified: on manualDeclassifications
\* and not disqualified.
IsDeclassified(k) == Str(riders[k].zwiftId) \in DeclassIds \ DqIds

\* C3: after calculate_league_points every rider on manualDQs and not on
\* manualExclusions has leaguePoints = 0, for every race type and every
\* leagueRankPoints, the empty list included.
C3_DisqualifiedLeaguePointsZero ==
    Ranked =>
        \A k \in DOMAIN riders :
            Str(riders[k].zwiftId) \in DqIds \ ExclusionIds =>
                riders[k].leaguePoints = Some(0)

\* No declassified rider has more finish points than a valid finisher.
DeclassifiedBelowValid ==
    \A d, v \in DOMAIN riders :
        IsDeclassified(d) /\ IsValid(v) /\ riders[v].finishTime > 0 =>
            riders[d].finishPoints <= riders[v].finishPoints

\* The values of a point scheme are not negative and never go up.
NonIncreasing(scheme) ==
    /\ \A i \in DOMAIN scheme : scheme[i] >= 0
    /\ \A i, j \in DOMAIN scheme : i < j => scheme[i] >= scheme[j]

\* C4 as stated: after calculate_results a declassified rider has at most
\* the finishPoints of any valid finisher, for any finishPointsScheme.
C4_AnyScheme == Scored => DeclassifiedBelowValid

\* C4 for the schemes it holds of: after calculate_results a declassified
\* rider has at most the finishPoints of any valid finisher when the
\* finishPointsScheme is non-negative and non-increasing.
C4_NonIncreasingScheme ==
    Scored /\ NonIncreasing(settings.finishPoints) => DeclassifiedBelowValid

\* A declassified rider who finished ahead of a valid finisher has points,
\* fewer than that finisher.
C4_Witness ==
    /\ phase = "scored"
    /\ NonIncreasing(settings.finishPoints)
    /\ \E d, v \in DOMAIN riders :
          /\ IsDeclassified(d) /\ IsValid(v)
          /\ 0 < riders[d].finishTime /\ riders[d].finishTime < riders[v].finishTime
          /\ 0 < riders[d].finishPoints
          /\ riders[d].finishPoints < riders[v].finishPoints

\* The returned riders with a crossing of sprint key, and the valid ones.
Crossed(key) == {k \in DOMAIN riders : key \in DOMAIN riders[k].sprintData}
CrossedValid(key) == {k \in Crossed(key) : IsValid(k)}

\* The points rider k holds for sprint key.
SprintAward(k, key) ==
    IF key \in DOMAIN riders[k].sprintDetails THEN riders[k].sprintDetails[key] ELSE 0

\* The three riders of the example, found by name.
RiderNamed(n) == riders[CHOOSE k \in DOMAIN riders : riders[k].name = n]

\* C5: sprint scoring is standard competition ranking: on a sprint key a
\* valid rider's rank is 1 + the number of valid riders with a smaller
\* worldTime and its points are the scheme's value for that rank, so riders
\* with equal worldTime share rank and points; A at 100, B at 100, C at 105
\* with scheme [5, 3, 2] give A and B rank 1 and 5 points, C rank 3 and 2.
C5_CompetitionRanking ==
    Scored =>
        \A key \in UNION {DOMAIN riders[k].sprintData : k \in DOMAIN riders} :
            SegmentTypeOf(race_config, key) = "sprint" =>
                \A k \in CrossedValid(key) :
                    LET ahead == {j \in CrossedValid(key) :
                                     riders[j].sprintData[key].worldTime
                                         < riders[k].sprintData[key].worldTime}
                    IN  /\ riders[k].sprintData[key].rank = 1 + Cardinality(ahead)
                        /\ SprintAward(k, key) =
                               SchemeAt(settings.sprintPoints, Cardinality(ahead))

\* C6: the i-th valid finisher by finishTime gets finishRank i and
\* finishPoints finishPointsScheme[i-1], 0 past the end of the scheme; a
\* valid rider with finishTime 0 gets rank 0 and 0 points; with scheme
\* [10, 7, 5, 3, 1], X (rider A) at 600000, Y (B) at 0 and Z (C) at 580000:
\* Z has rank 1 and 10 points, X rank 2 and 7 points, Y rank 0 and 0 points.
C6_FinishRankAndPoints ==
    Scored =>
        /\ \A k \in DOMAIN riders :
              IsValid(k) =>
                  LET r == riders[k]
                      faster == {j \in DOMAIN riders :
                                    /\ IsValid(j)
                                    /\ 0 < riders[j].finishTime
                                    /\ riders[j].finishTime < r.finishTime}
                      level == {j \in DOMAIN riders :
                                   IsValid(j) /\ riders[j].finishTime = r.finishTime}
                  IN  IF r.finishTime > 0
                      THEN /\ r.finishRank > Cardinality(faster)
                           /\ r.finishRank <= Cardinality(faster) + Cardinality(level)
                           /\ r.finishPoints = SchemeAt(settings.finishPoints,
                                                        r.finishRank - 1)
                           /\ \A j \in level : j # k => riders[j].finishRank # r.finishRank
                      ELSE r.finishRank = 0 /\ r.finishPoints = 0
        /\ settings.finishPoints = <<10, 7, 5, 3, 1>> =>
              /\ RiderNamed("C").finishRank = 1 /\ RiderNamed("C").finishPoints = 10
              /\ RiderNamed("A").finishRank = 2 /\ RiderNamed("A").finishPoints = 7
              /\ RiderNamed("B").finishRank = 0 /\ RiderNamed("B").finishPoints = 0

\* The example race is scored: the rider who did not finish is in the list
\* that was scored before the two finishers' later one.
C6_Witness ==
    /\ phase = "scored"
    /\ settings.finishPoints = <<10, 7, 5, 3, 1>>
    /\ fetched[2].finishTime = 0
    /\ fetched[3].finishTime = 580000
    /\ RiderNamed("C").finishRank = 1

\* The sprint keys of the returned riders.
SprintKeys == UNION {DOMAIN riders[k].sprintData : k \in DOMAIN riders}

\* The scheme's value for the rank rider k holds on sprint key.
SchemeForRank(k, key) ==
    SchemeAt(settings.sprintPoints, riders[k].sprintData[key].rank - 1)

RECURSIVE SumSchemeForRank(_, _)
\* The sum of SchemeForRank over a set of keys.
SumSchemeForRank(k, keys) ==
    IF keys = {} THEN 0
    ELSE LET key == CHOOSE x \in keys : TRUE
         IN  SchemeForRank(k, key) + SumSchemeForRank(k, keys \ {key})

\* C9: on every sprint key the valid riders hold the ranks 1, 2, ... in
\* ascending order of worldTime (whatever their elapsed times), on a
\* sprint-type key a valid rider is awarded sprintPointsScheme[rank-1], 0
\* past the end of the scheme, and its sprintPoints are the sum of these
\* awards; a DQ or declassified rider has rank 0 and no sprint points, and
\* is not counted in any valid rider's rank.
C9_SprintRankByWorldTime ==
    Scored =>
        /\ \A key \in SprintKeys :
              /\ \A k \in Crossed(key) \ CrossedValid(key) :
                    riders[k].sprintData[key].rank = 0
              /\ \A k \in CrossedValid(key) :
                    LET wt(j) == riders[j].sprintData[key].worldTime
                        ahead == {j \in CrossedValid(key) : wt(j) < wt(k)}
                        level == {j \in CrossedValid(key) : wt(j) = wt(k)}
                        rank == riders[k].sprintData[key].rank
                    IN  /\ rank > Cardinality(ahead)
                        /\ rank <= Cardinality(ahead) + Cardinality(level)
                        /\ \A j \in level :
                              j # k => riders[j].sprintData[key].rank # rank
                        /\ SegmentTypeOf(race_config, key) = "sprint"
                              /\ SchemeForRank(k, key) > 0
                              => SprintAward(k, key) = SchemeForRank(k, key)
        /\ \A k \in DOMAIN riders :
              riders[k].sprintPoints =
                  IF IsValid(k)
                  THEN SumSchemeForRank(k, {key \in DOMAIN riders[k].sprintData :
                                               SegmentTypeOf(race_config, key) = "sprint"})
                  ELSE 0

\* A disqualified rider reached the line at 100; of the two valid riders
\* the one arriving at 100 took 30 over the segment and has rank 1 and 5
\* points, the one arriving at 105 took 20 and has rank 2 and 3 points.
C9_Witness ==
    /\ phase = "scored"
    /\ settings.sprintPoints = <<5, 3, 2>>
    /\ \E d, i, j \in CrossedValid("s1_1") \cup Crossed("s1_1") :
          /\ riders[d].disqualified /\ IsValid(i) /\ IsValid(j)
          /\ riders[d].sprintData["s1_1"].worldTime = 100
          /\ riders[d].sprintData["s1_1"].rank = 0 /\ riders[d].sprintPoints = 0
          /\ riders[i].sprintData["s1_1"] = [time |-> 30, worldTime |-> 100, rank |-> 1]
          /\ riders[j].sprintData["s1_1"] = [time |-> 20, worldTime |-> 105, rank |-> 2]
          /\ riders[i].sprintPoints = 5 /\ riders[j].sprintPoints = 3

\* C10: the returned list is ordered by totalPoints descending; of two
\* riders with equal totalPoints the one placed first has the smaller
\* positive finishTime, or the one placed second has finishTime 0.
C10_FinalOrder ==
    Scored =>
        \A i, j \in DOMAIN riders :
            i < j =>
                \/ riders[i].totalPoints > riders[j].totalPoints
                \/ /\ riders[i].totalPoints = riders[j].totalPoints
                   /\ \/ riders[j].finishTime = 0
                      \/ /\ riders[i].finishTime > 0
                         /\ riders[i].finishTime <= riders[j].finishTime

\* Two riders with equal totalPoints: the one who did not finish came
\* first in the list that was scored and is placed after the finisher.
C10_Witness ==
    /\ phase = "scored"
    /\ Len(fetched) = 2 /\ Len(riders) = 2
    /\ fetched[1].finishTime = 0 /\ fetched[2].finishTime > 0
    /\ riders[1].name = fetched[2].name
    /\ riders[1].totalPoints = riders[2].totalPoints

\* The league points the engine gives the riders of category c in each
\* stored race; a rider it gives none is not in the map of the race.
RacePointsMaps(c) ==
    AsTuple([k \in DOMAIN races_data |->
        IF c \in DOMAIN races_data[k].results
        THEN CalculateRaceLeaguePoints(settings, races_data[k].results[c],
                 races_data[k], c, races_data[k].type,
                 StrSet(races_data[k].manualDQs),
                 StrSet(races_data[k].manualDeclassifications),
                 StrSet(races_data[k].manualExclusions))
        ELSE EmptyMap])

\* The ledger of rider zid in category c: a {raceId, points} pair for every
\* stored race that counts for the rider and gives it league points.
LedgerOf(maps, c, zid) ==
    {[raceId |-> races_data[k].id, points |-> maps[k][zid]] :
        k \in {x \in RacesOpenTo(c, zid) : zid \in DOMAIN maps[x]}}

RECURSIVE SumPointsAt(_, _)
\* The sum of the points of the results at the indices S.
SumPointsAt(results, S) ==
    IF S = {} THEN 0
    ELSE LET k == CHOOSE x \in S : TRUE
         IN  results[k].points + SumPointsAt(results, S \ {k})

\* total is the sum of the n highest points of results, of all of them when
\* there are fewer than n.
IsBestSum(results, n, total) ==
    \E S \in SUBSET DOMAIN results :
        /\ Cardinality(S) = IF n < Len(results) THEN n ELSE Len(results)
        /\ \A i \in S : \A j \in DOMAIN results \ S :
              results[i].points >= results[j].points
        /\ total = SumPointsAt(results, S)

\* C7: in the standings calculate_standings returns for the stored races
\* every entry's totalPoints is the sum of its bestRacesCount highest
\* per-race points (of all when it has fewer), its results list holds every
\* race that counts for the rider and raceCount is their number; with
\* per-race points [20, 18, 15, 10, 5, 0] and bestRacesCount 5 the total
\* is 68.
C7_BestRacesTotal ==
    phase = "saved" =>
        \A c \in DOMAIN standings :
            One({\A e \in DOMAIN standings[c] :
                    One({/\ IsBestSum(entry.results, settings.bestRacesCount,
                                      entry.totalPoints)
                         /\ Range(entry.results) = ledger
                         /\ Len(entry.results) = Cardinality(ledger)
                         /\ entry.raceCount = Len(entry.results)
                         /\ {entry.results[k].points : k \in DOMAIN entry.results}
                                   = {20, 18, 15, 10, 5, 0}
                               /\ Len(entry.results) = 6 /\ settings.bestRacesCount = 5
                               => entry.totalPoints = 68
                         : entry \in {standings[c][e]},
                           ledger \in {LedgerOf(maps, c, standings[c][e].zwiftId)}})
                 : maps \in {RacePointsMaps(c)}})

\* The sixth race of the season is stored: rider 1 has six results with
\* the points 20, 18, 15, 10, 5 and 0, and totalPoints 68.
C7_Witness ==
    /\ phase = "saved"
    /\ settings.bestRacesCount = 5
    /\ \E e \in DOMAIN standings["A"] :
          /\ [k \in 1..6 |-> standings["A"][e].results[k].points]
                = <<20, 18, 15, 10, 5, 0>>
          /\ standings["A"][e].raceCount = 6
          /\ standings["A"][e].totalPoints = 68

\* The n-th highest of the points of results, which has at least n of them.
NthBest(results, n) ==
    CHOOSE v \in {results[k].points : k \in DOMAIN results} :
        /\ Cardinality({k \in DOMAIN results : results[k].points > v}) < n
        /\ Cardinality({k \in DOMAIN results : results[k].points >= v}) >= n

\* The entry of rider zid in category c of the table tab, the empty ledger
\* when there is none.
EntryOf(tab, c, zid) ==
    LET at == IF c \in DOMAIN tab
              THEN {k \in DOMAIN tab[c] : tab[c][k].zwiftId = zid} ELSE {}
    IN  IF at = {} THEN [totalPoints |-> 0, results |-> <<>>]
        ELSE [totalPoints |-> tab[c][CHOOSE k \in at : TRUE].totalPoints,
              results |-> tab[c][CHOOSE k \in at : TRUE].results]

\* The results of entry for the race stored last, and for the races before.
ResultsOfLast(entry) ==
    Filter(entry.results, {k \in DOMAIN entry.results :
                              entry.results[k].raceId = races_data[Len(races_data)].id})
ResultsBeforeLast(entry) ==
    Filter(entry.results, {k \in DOMAIN entry.results :
                              entry.results[k].raceId # races_data[Len(races_data)].id})

\* One more race is stored and bestRacesCount is N >= 1: of a rider the
\* new race counts for, new points above the rider's N-th best do not
\* lower totalPoints and new points below it leave totalPoints as it was;
\* a rider with fewer than N results has no N-th best, and new points
\* above 0 do not lower its totalPoints.
BestNStep ==
    Len(races_data') = Len(races_data) + 1 /\ settings.bestRacesCount >= 1 =>
        \A c \in DOMAIN standings' : \A e \in DOMAIN standings'[c] :
            LET after == standings'[c][e]
                before == EntryOf(standings, c, after.zwiftId)
                n == settings.bestRacesCount
                added == {k \in DOMAIN after.results :
                             after.results[k].raceId = races_data'[Len(races_data')].id}
            IN  added # {} =>
                    LET new == after.results[CHOOSE k \in added : TRUE].points
                    IN  /\ Len(after.results) = Len(before.results) + 1
                        /\ IF Len(before.results) >= n
                           THEN /\ new > NthBest(before.results, n)
                                     => after.totalPoints >= before.totalPoints
                                /\ new < NthBest(before.results, n)
                                     => after.totalPoints = before.totalPoints
                           ELSE new > 0 => after.totalPoints >= before.totalPoints

\* C8: best-N monotonicity of the standings over every stored race.
C8_BestNMonotone == [][BestNStep]_vars

\* bestRacesCount is 1 and a race was stored on top of an earlier one: a
\* rider whose new points are below its best keeps the total it had, and a
\* rider whose new points are above its best has them as its total.
C8_Witness ==
    /\ phase = "saved"
    /\ settings.bestRacesCount = 1
    /\ \E c \in DOMAIN standings : \E e1, e2 \in DOMAIN standings[c] :
          LET low == standings[c][e1]
              high == standings[c][e2]
          IN  /\ Len(ResultsOfLast(low)) = 1 /\ Len(ResultsBeforeLast(low)) >= 1
              /\ ResultsOfLast(low)[1].points < NthBest(ResultsBeforeLast(low), 1)
              /\ low.totalPoints = NthBest(ResultsBeforeLast(low), 1)
              /\ Len(ResultsOfLast(high)) = 1 /\ Len(ResultsBeforeLast(high)) >= 1
              /\ ResultsOfLast(high)[1].points > NthBest(ResultsBeforeLast(high), 1)
              /\ high.totalPoints = ResultsOfLast(high)[1].points

\* The split list of a time trial in course order, as race document cfg
\* configures it.
CourseSplits(cfg) ==
    IF cfg.segmentType = "split" THEN cfg.sprints
    ELSE Filter(cfg.sprints, {i \in DOMAIN cfg.sprints : cfg.sprints[i].type = "split"})

\* The place in course of the last split rider r reached (worldTime > 0),
\* 0 when it reached none, and the worldTime of r at that split.
LastReached(r, course) ==
    LET reached == {i \in DOMAIN course : SplitWorldTime(r.sprintData, course[i]) > 0}
    IN  IF reached = {} THEN 0 ELSE CHOOSE i \in reached : \A m \in reached : m <= i
LastReachedTime(r, course) ==
    SplitWorldTime(r.sprintData, course[LastReached(r, course)])

\* Of two non-finishers that reached a split, a is ahead of b: its last
\* reached split is later on the course, or the same and reached earlier.
AheadOnCourse(a, b, course) ==
    /\ a.finishTime = 0 /\ b.finishTime = 0
    /\ LastReached(a, course) > 0 /\ LastReached(b, course) > 0
    /\ \/ LastReached(a, course) > LastReached(b, course)
       \/ /\ LastReached(a, course) = LastReached(b, course)
          /\ LastReachedTime(a, course) < LastReachedTime(b, course)

\* League points p and q of two ranked riders show the first ranked above
\* the second: the values of a leagueRankPoints scheme fall with the rank
\* and are 0 past its end.
PointsAbove(p, q) == p > q \/ (p = 0 /\ q = 0)

\* The league points the standings hold for rider zid in category c for
\* race race_id, None when the race is not in the rider's ledger.
StandingsPoints(tab, c, zid, race_id) ==
    LET hits == {<<e, x>> \in (IF c \in DOMAIN tab THEN DOMAIN tab[c] ELSE {}) \X (1..9) :
                    /\ tab[c][e].zwiftId = zid
                    /\ x \in DOMAIN tab[c][e].results
                    /\ tab[c][e].results[x].raceId = race_id}
    IN  IF hits = {} THEN None
        ELSE LET h == CHOOSE y \in hits : TRUE
             IN  Some(tab[c][h[1]].results[h[2]].points)

\* calculate_league_points ranks a time trial: of two riders that are not
\* declassified, the one ahead on the course of the race document it is
\* given has the league points of the higher rank.
ScorerRanksByCourse ==
    /\ phase = "scored" /\ phase' = "ranked"
    /\ race_config.type = "time-trial" /\ settings.leagueRankPoints # <<>>
    => \A a, b \in DOMAIN riders' :
           /\ IsValid(a) /\ IsValid(b)
           /\ AheadOnCourse(riders'[a], riders'[b], CourseSplits(race_config))
           => /\ riders'[a].leaguePoints # None /\ riders'[b].leaguePoints # None
              /\ PointsAbove(riders'[a].leaguePoints[1], riders'[b].leaguePoints[1])

\* calculate_standings ranks the stored time trial the same way, on the
\* course of the stored race document.
EngineRanksByCourse ==
    /\ phase = "ranked" /\ phase' = "saved"
    /\ race_config.type = "time-trial" /\ settings.leagueRankPoints # <<>>
    => LET rd == races_data'[Len(races_data')]
           pts(k) == StandingsPoints(standings', subgroup,
                                     Str(riders[k].zwiftId), rd.id)
       IN  \A a, b \in DOMAIN riders :
               /\ IsValid(a) /\ IsValid(b)
               /\ AheadOnCourse(riders[a], riders[b], CourseSplits(rd))
               => /\ pts(a) # None /\ pts(b) # None
                  /\ PointsAbove(pts(a)[1], pts(b)[1])

\* C11: in a time trial with leagueRankPoints configured, of two ranked
\* non-finishers that are not declassified the one whose last reached split
\* is later in course order is ranked above the other, and of two with the
\* same last reached split the one with the smaller worldTime there is
\* ranked above the other; by the scorer and by the standings engine.
C11_FurtherSplitRankedAbove == [][ScorerRanksByCourse /\ EngineRanksByCourse]_vars

---------------------------------------------------------------------------
(* C12: the time-trial scenario with three non-finishers *)

\* Riders a, b, c of rs are the scenario's A, B and C on a course of three
\* splits: none finished, A stops at the second split at worldTime 500,
\* B at the third at 900 and C at the second at 400.
IsScenario(rs, course, a, b, c) ==
    /\ Len(course) = 3 /\ Len(rs) = 3 /\ {a, b, c} = DOMAIN rs
    /\ \A k \in DOMAIN rs : rs[k].finishTime = 0
    /\ LastReached(rs[a], course) = 2 /\ LastReachedTime(rs[a], course) = 500
    /\ LastReached(rs[b], course) = 3 /\ LastReachedTime(rs[b], course) = 900
    /\ LastReached(rs[c], course) = 2 /\ LastReachedTime(rs[c], course) = 400

\* The three are ranked in the order x, y, z by the league points p.
RankedInOrder(p, x, y, z) ==
    /\ p[x] # None /\ p[y] # None /\ p[z] # None
    /\ PointsAbove(p[x][1], p[y][1]) /\ p[x][1] # p[y][1]
    /\ PointsAbove(p[y][1], p[z][1]) /\ p[y][1] # p[z][1]

\* The league points of the riders after calculate_league_points, and the
\* points the standings hold for them for the race stored last.
ScorerPoints(rs) == [k \in DOMAIN rs |-> rs[k].leaguePoints]
EnginePoints(tab, rs, rd) ==
    [k \in DOMAIN rs |-> StandingsPoints(tab, subgroup, Str(rs[k].zwiftId), rd.id)]

\* calculate_league_points and calculate_standings rank the scenario in the
\* order B, A, C.
ScenarioOrderBAC ==
    /\ (/\ phase = "scored" /\ phase' = "ranked"
        /\ race_config.type = "time-trial" /\ settings.leagueRankPoints # <<>>
        => \A a, b, c \in DOMAIN riders :
               IsScenario(riders, CourseSplits(race_config), a, b, c)
               => RankedInOrder(ScorerPoints(riders'), b, a, c))
    /\ (/\ phase = "ranked" /\ phase' = "saved"
        /\ race_config.type = "time-trial" /\ settings.leagueRankPoints # <<>>
        => \A a, b, c \in DOMAIN riders :
               IsScenario(riders, CourseSplits(races_data'[Len(races_data')]), a, b, c)
               => RankedInOrder(EnginePoints(standings', riders,
                                             races_data'[Len(races_data')]), b, a, c))

\* calculate_standings ranks the scenario in the order B, C, A, and so does
\* calculate_league_points when sorting the splits by (count, key) leaves
\* them in course order.
ScenarioOrderBCA ==
    /\ (/\ phase = "scored" /\ phase' = "ranked"
        /\ race_config.type = "time-trial" /\ settings.leagueRankPoints # <<>>
        /\ ScorerSplits(race_config) = CourseSplits(race_config)
        => \A a, b, c \in DOMAIN riders :
               IsScenario(riders, CourseSplits(race_config), a, b, c)
               => RankedInOrder(ScorerPoints(riders'), b, c, a))
    /\ (/\ phase = "ranked" /\ phase' = "saved"
        /\ race_config.type = "time-trial" /\ settings.leagueRankPoints # <<>>
        => \A a, b, c \in DOMAIN riders :
               IsScenario(riders, CourseSplits(races_data'[Len(races_data')]), a, b, c)
               => RankedInOrder(EnginePoints(standings', riders,
                                             races_data'[Len(races_data')]), b, c, a))

\* C12 as stated: in a time trial with splits S1, S2, S3 in course order and
\* the non-finishers A (last split S2 at worldTime 500), B (S3 at 900) and
\* C (S2 at 400), the league ranking order is B, then A, then C.
C12_OrderBAC == [][ScenarioOrderBAC]_vars

\* C12, amended: in that scenario the league ranking order the standings
\* engine computes is B, then C, then A (of A and C, both stopped at S2, C
\* was there earlier), and the scorer computes the same order when sorting
\* the splits by (count, key) leaves them in course order.
C12_OrderBCA == [][ScenarioOrderBCA]_vars

\* The scenario was ranked B, C, A by the scorer and by the engine.
C12_Witness ==
    /\ phase = "saved" /\ race_config.type = "time-trial"
    /\ IsScenario(riders, CourseSplits(races_data[Len(races_data)]), 1, 2, 3)
    /\ ScorerPoints(riders) = <<Some(1), Some(3), Some(2)>>
    /\ EnginePoints(standings, riders, races_data[Len(races_data)])
           = <<Some(1), Some(3), Some(2)>>

---------------------------------------------------------------------------
(* C13: determinism *)

\* The orders in which a set of keys can be iterated.
KeyOrders(keys) ==
    {o \in [1..Cardinality(keys) -> keys] : {o[k] : k \in DOMAIN o} = keys}

\* calculate_results on the riders and race of the state, with all_keys
\* iterated in the given order.
ResultsInKeyOrder(order) ==
    LET cls == FinishPointsStep(
                   Classified(ActiveRiders(riders, ExclusionIds), DqIds, DeclassIds),
                   settings.finishPoints)
        valid == {i \in DOMAIN cls : /\ Str(cls[i].zwiftId) \notin DqIds
                                      /\ Str(cls[i].zwiftId) \notin DeclassIds}
    IN  TotalAndSort(SprintKeysInOrder(cls, order, race_config, valid,
                                       settings.sprintPoints))

\* Every run of calculate_results on the riders of the state returns the
\* list this run returned.
ScorerDeterministic ==
    phase = "fetched" /\ phase' = "scored"
    => \A order \in KeyOrders(UNION {DOMAIN riders[i].sprintData : i \in DOMAIN riders}) :
           ResultsInKeyOrder(order) = riders'

\* Another run of calculate_standings on the stored races returns the
\* standings this run returned.
EngineDeterministic ==
    phase \in {"ranked", "edited"} /\ phase' = "saved"
    => calculate_standings(settings, races_data', "", None) = standings'

---------------------------------------------------------------------------
(* C14: the read-your-writes override *)

\* The race list in which the race with the given id is replaced by data.
ReplaceRace(races, race_id, data) ==
    [k \in DOMAIN races |-> IF races[k].id = race_id THEN data ELSE races[k]]

\* C14 as stated: calculate_standings with override arguments returns the
\* standings of the race list in which the race whose id is
\* override_race_id is replaced by override_race_data.
C14_OverrideIsReplacement ==
    phase = "overridden"
    => standings = calculate_standings(settings,
                       ReplaceRace(races_data, override.id, override.data[1]), "", None)

\* C14, amended: for override data that is not the empty dict,
\* calculate_standings with override arguments returns the standings of the
\* race list in which the race whose id is override_race_id is replaced by
\* override_race_data under the id override_race_id; the stored results of
\* that race contribute nothing and the other races are used as stored.
C14_OverrideKeepsId ==
    phase = "overridden" /\ override.data[1] # EmptyDoc
    => standings = calculate_standings(settings,
                       ReplaceRace(races_data, override.id,
                                   [override.data[1] EXCEPT !.id = override.id]),
                       "", None)

\* The standings were calculated with override data that has results for a
\* race stored without results, after another race.
C14_Witness ==
    /\ phase = "overridden" /\ Len(races_data) >= 2
    /\ races_data[Len(races_data)].id = override.id
    /\ races_data[Len(races_data)].results = EmptyMap
    /\ races_data[1].id # override.id
    /\ subgroup \in DOMAIN override.data[1].results
    /\ \E e \in DOMAIN standings[subgroup] :
          \E x \in DOMAIN standings[subgroup][e].results :
             standings[subgroup][e].results[x].raceId = override.id

---------------------------------------------------------------------------
(* C15: concurrent refreshes of one race *)

\* Call p has written its results map.
HasWritten(p) == calls[p].pc \in {"written", "done"}

\* The results call p computed for label c are not in the stored document,
\* and the other call did not compute that label.
LostUpdate(p, c) ==
    /\ c \in FilteredLabels(calls[p].category_filter)
    /\ \A q \in Procs \ {p} : c \notin FilteredLabels(calls[q].category_filter)
    /\ \/ c \notin DOMAIN races_data[1].results
       \/ races_data[1].results[c] # calls[p].all_results[c]

\* C15: refreshes of one race are not serialized.  Every write replaces the
\* whole stored results map by the map of the writing call, built from the
\* document as that call read it: once a call has written, the stored map
\* is the map of one call alone, never the two calls' results combined, so
\* the interleaving in which both calls read before either writes loses
\* the results of the call that writes first.
C15_WholeMapOfOneCall ==
    (\E p \in DOMAIN calls : HasWritten(p))
    => \E p \in DOMAIN calls :
          HasWritten(p) /\ races_data[1].results = calls[p].all_results

\* Both calls have finished and the stored document lacks the results that
\* one of them computed.
C15_Witness ==
    /\ calls # <<>>
    /\ \A p \in Procs : calls[p].pc = "done"
    /\ \E p \in Procs, c \in SubgroupLabels : LostUpdate(p, c)

---------------------------------------------------------------------------
(* C16: raw league points *)

\* The race stored last and the rider list of the category in it.
LastRace == races_data[Len(races_data)]
LastResults == LastRace.results[subgroup]

\* Rider k of the stored list is on none of the manual lists of the race.
ValidInLast(k) ==
    Str(LastResults[k].zwiftId) \notin
        StrSet(LastRace.manualDQs) \cup StrSet(LastRace.manualDeclassifications)
            \cup StrSet(LastRace.manualExclusions)

\* has_finished, points > 0 or has_activity
HasPresence(r) == r.finishTime > 0 \/ r.totalPoints > 0 \/ DOMAIN r.sprintData # {}

\* C16: with leagueRankPoints empty, the league points calculate_standings
\* counts for a rider of the race who is on no manual list and has
\* finishTime > 0, totalPoints > 0 or sprintData are the rider's stored
\* totalPoints; such a rider with none of the three is not counted for the
\* race.
C16_RawPointsAreTotalPoints ==
    phase = "saved" /\ settings.leagueRankPoints = <<>>
    => \A k \in DOMAIN LastResults :
           ValidInLast(k)
           => StandingsPoints(standings, subgroup, Str(LastResults[k].zwiftId), LastRace.id)
                 = IF HasPresence(LastResults[k])
                   THEN Some(LastResults[k].totalPoints) ELSE None

\* A rider counted with stored totalPoints above 0 and a rider on no manual
\* list that is not counted.
C16_Witness ==
    /\ phase = "saved" /\ settings.leagueRankPoints = <<>>
    /\ \E a, b \in DOMAIN LastResults :
          /\ ValidInLast(a) /\ ValidInLast(b)
          /\ LastResults[a].totalPoints > 0 /\ ~HasPresence(LastResults[b])
          /\ StandingsPoints(standings, subgroup, Str(LastResults[a].zwiftId), LastRace.id)
                = Some(LastResults[a].totalPoints)
          /\ StandingsPoints(standings, subgroup, Str(LastResults[b].zwiftId), LastRace.id)
                = None

---------------------------------------------------------------------------
(* C17: disqualified riders are counted, excluded and unranked riders are not *)

\* The standings entry of rider zid in category c of the table tab, None
\* when the rider has none.
LedgerEntry(tab, c, zid) ==
    LET at == IF c \in DOMAIN tab
              THEN {k \in DOMAIN tab[c] : tab[c][k].zwiftId = zid} ELSE {}
    IN  IF at = {} THEN None ELSE Some(tab[c][CHOOSE k \in at : TRUE])

\* The results of an entry (or of no entry) for the race race_id.
EntriesFor(entry, race_id) ==
    IF entry = None THEN <<>>
    ELSE Filter(entry[1].results, {k \in DOMAIN entry[1].results :
                                      entry[1].results[k].raceId = race_id})

\* The league points map of category c of the stored race rd.
LeaguePointsMapOf(rd, c) ==
    CalculateRaceLeaguePoints(settings, rd.results[c], rd, c, rd.type,
        StrSet(rd.manualDQs), StrSet(rd.manualDeclassifications),
        StrSet(rd.manualExclusions))

\* One more race is stored and the standings are recalculated: a rider of
\* the race on manualDQs and not on manualExclusions has one more race
\* counted and a {raceId, 0} entry for it; for a rider that is excluded or
\* has no league points the standings entry is what it was before.
CountedStep ==
    phase = "ranked" /\ phase' = "saved" =>
        LET rd == races_data'[Len(races_data')]
            rs == rd.results[subgroup]
        IN  \A k \in DOMAIN rs :
                LET zid == Str(rs[k].zwiftId)
                    before == LedgerEntry(standings, subgroup, zid)
                    after == LedgerEntry(standings', subgroup, zid)
                IN  /\ zid \in StrSet(rd.manualDQs) \ StrSet(rd.manualExclusions)
                       => /\ after # None
                          /\ after[1].raceCount
                                = (IF before = None THEN 0 ELSE before[1].raceCount) + 1
                          /\ EntriesFor(after, rd.id) = <<[raceId |-> rd.id, points |-> 0]>>
                    /\ \/ zid \in StrSet(rd.manualExclusions)
                       \/ zid \notin DOMAIN LeaguePointsMapOf(rd, subgroup)
                       => /\ after = before
                          /\ EntriesFor(after, rd.id) = <<>>

---------------------------------------------------------------------------
(* C18: malformed configuration *)

\* The settings or the race being processed are malformed.
Malformed ==
    \/ settings.bestRacesCount < 0
    \/ race_config.type \notin {"scratch", "points", "time-trial"}

\* C18: malformed configuration fails fast: with a negative bestRacesCount,
\* or a race whose type is none of scratch, points and time-trial, the
\* league-points ranking gives no rider league points and
\* calculate_standings produces no standings.
C18_MalformedFailsFast ==
    Malformed
    => /\ phase \in {"ranked", "saved", "edited"}
          => \A k \in DOMAIN riders : riders[k].leaguePoints = None
       /\ phase = "saved" => standings = EmptyMap

---------------------------------------------------------------------------
(* C19: finish rank and finish points of declassified riders *)

\* The number of valid riders of the scored list with finishTime > 0.
ValidFinishers ==
    Cardinality({v \in DOMAIN riders : IsValid(v) /\ riders[v].finishTime > 0})

\* C19: after calculate_results every declassified rider (on
\* manualDeclassifications, not DQ, not excluded) has finishRank = number of
\* valid riders with finishTime > 0, plus 1, and the finishPointsScheme value
\* of that rank (0 past the scheme), whatever its own finish time; so all
\* declassified riders of the list have the same finishRank and finishPoints.
C19_DeclassifiedLastPlace ==
    Scored =>
        \A d \in DOMAIN riders :
            IsDeclassified(d) =>
                /\ riders[d].finishRank = ValidFinishers + 1
                /\ riders[d].finishPoints = SchemeAt(settings.finishPoints, ValidFinishers)

\* A declassified rider that did not finish is placed behind the one valid
\* finisher, with the points of the second place.
C19_Witness ==
    /\ phase = "scored" /\ ValidFinishers = 1
    /\ \E d, v \in DOMAIN riders :
          /\ IsDeclassified(d) /\ riders[d].finishTime = 0
          /\ riders[d].finishRank = 2 /\ riders[d].finishPoints > 0
          /\ IsValid(v) /\ riders[v].finishRank = 1

---------------------------------------------------------------------------
(* C20: raw league points of declassified riders *)

\* Rider k of the stored list is declassified for the standings: on
\* manualDeclassifications, not on manualDQs or manualExclusions.
DeclassifiedInLast(k) ==
    Str(LastResults[k].zwiftId) \in
        StrSet(LastRace.manualDeclassifications)
            \ (StrSet(LastRace.manualDQs) \cup StrSet(LastRace.manualExclusions))

\* The number of riders of the stored list on no manual list that finished.
ValidFinishersInLast ==
    Cardinality({v \in DOMAIN LastResults :
                    ValidInLast(v) /\ LastResults[v].finishTime > 0})

\* C20: with leagueRankPoints empty, the league points calculate_standings
\* counts for a declassified rider are the last-place finish points of the
\* scorer for the race and category: the finishPointsScheme value at index
\* (number of valid riders with finishTime > 0), 0 past the scheme, which is
\* the finishPoints calculate_results gave the rider.
C20_DeclassifiedRawPoints ==
    phase = "saved" /\ settings.leagueRankPoints = <<>>
    => \A d \in DOMAIN LastResults :
           DeclassifiedInLast(d)
           => /\ StandingsPoints(standings, subgroup, Str(LastResults[d].zwiftId),
                                 LastRace.id)
                    = Some(SchemeAt(settings.finishPoints, ValidFinishersInLast))
              /\ StandingsPoints(standings, subgroup, Str(LastResults[d].zwiftId),
                                 LastRace.id)
                    = Some(LastResults[d].finishPoints)

---------------------------------------------------------------------------
(* C21: the league ranking of scratch and points races *)

\* The riders of the list rs of race rd that enter the ranking: not on
\* manualDQs or manualExclusions, with finishTime > 0, totalPoints > 0 or
\* sprintData.
RankingCandidates(rs, rd) ==
    {k \in DOMAIN rs :
        /\ Str(rs[k].zwiftId) \notin StrSet(rd.manualDQs) \cup StrSet(rd.manualExclusions)
        /\ HasPresence(rs[k])}

\* x comes before y by totalPoints descending, then finishRank ascending, a
\* rider without a finish rank (0) after those that have one.
BeforeByPoints(x, y) ==
    \/ x.totalPoints > y.totalPoints
    \/ x.totalPoints = y.totalPoints /\ RankingFinishRank(x) < RankingFinishRank(y)

\* x comes before y in the ranking; dx and dy tell whether x and y are
\* declassified.  Either every valid rider comes before every declassified
\* one (declass_first), or the declassification decides only between riders
\* that are tied otherwise.
RankedBefore(x, dx, y, dy, declass_first) ==
    IF declass_first
    THEN (~dx /\ dy) \/ (dx = dy /\ BeforeByPoints(x, y))
    ELSE \/ BeforeByPoints(x, y)
         \/ ~BeforeByPoints(y, x) /\ ~dx /\ dy

\* The orders in which the riders of the set cand can be listed.
OrdersOf(cand) ==
    {f \in [1..Cardinality(cand) -> cand] : \A i, j \in DOMAIN f : f[i] = f[j] => i = j}

\* points gives the candidates of rs the leagueRankPoints of their places
\* in some ranking: the rider at 0-based place i gets league_rank_points[i],
\* 0 past the end.
FollowsRanking(rs, rd, points, declass_first) ==
    LET declass(k) == Str(rs[k].zwiftId) \in StrSet(rd.manualDeclassifications)
    IN  \E order \in OrdersOf(RankingCandidates(rs, rd)) :
            /\ \A i, j \in DOMAIN order :
                  i < j => ~RankedBefore(rs[order[j]], declass(order[j]),
                                         rs[order[i]], declass(order[i]), declass_first)
            /\ \A i \in DOMAIN order :
                  points[order[i]] = Some(SchemeAt(settings.leagueRankPoints, i - 1))

\* The scorer has ranked a scratch or points race, or the standings hold
\* the engine's ranking of a stored points race.
PointsRaceRanked(declass_first) ==
    /\ /\ Ranked /\ settings.leagueRankPoints # <<>>
       /\ race_config.type \in {"scratch", "points"}
       => FollowsRanking(riders, race_config, ScorerPoints(riders), declass_first)
    /\ /\ phase = "saved" /\ settings.leagueRankPoints # <<>>
       /\ LastRace.type = "points"
       => FollowsRanking(LastResults, LastRace,
                         EnginePoints(standings, LastResults, LastRace), declass_first)

\* C21 as claimed: for scratch and points races with leagueRankPoints
\* configured the candidates are ranked by totalPoints descending, then
\* finishRank ascending, a declassified rider after valid riders only when
\* tied with them otherwise; the rider at 0-based place i of the ranking gets
\* leagueRankPoints[i], 0 past the end.
C21_DeclassifiedAfterTied == PointsRaceRanked(FALSE)

\* C21 as the code ranks: every valid candidate comes before every
\* declassified candidate, and each of the two groups is ordered by
\* totalPoints descending, then finishRank ascending; the rider at 0-based
\* place i of the ranking gets leagueRankPoints[i], 0 past the end.
C21_DeclassifiedAfterValid == PointsRaceRanked(TRUE)

\* A points race is stored in which a declassified rider with more
\* totalPoints than a valid candidate holds fewer league points than it, by
\* the scorer and in the standings.
C21_Witness ==
    /\ phase = "saved" /\ settings.leagueRankPoints # <<>> /\ LastRace.type = "points"
    /\ \E d, v \in RankingCandidates(LastResults, LastRace) :
          /\ DeclassifiedInLast(d) /\ ValidInLast(v)
          /\ LastResults[d].totalPoints > LastResults[v].totalPoints
          /\ LastResults[d].leaguePoints[1] < LastResults[v].leaguePoints[1]
          /\ EnginePoints(standings, LastResults, LastRace)[d][1]
                < EnginePoints(standings, LastResults, LastRace)[v][1]

---------------------------------------------------------------------------
(* C22: finishers and non-finishers of a time trial *)

\* The riders of the list rs of race rd that the league points in points
\* show as ranked: not on manualDQs or manualExclusions, points not None.
RankedRiders(rs, rd, points) ==
    {k \in DOMAIN rs :
        /\ Str(rs[k].zwiftId) \notin StrSet(rd.manualDQs) \cup StrSet(rd.manualExclusions)
        /\ points[k] # None}

\* x comes before y as a finisher: x finished and y did not, or both
\* finished and x in less time.
FinisherBefore(x, y) ==
    /\ x.finishTime > 0
    /\ y.finishTime = 0 \/ x.finishTime < y.finishTime

\* x comes before y in the time-trial ranking as far as finishing decides;
\* dx and dy tell whether x and y are declassified.  With by_class every
\* valid rider comes before every declassified one and finishing decides
\* within the two groups; without it finishing decides between any two.
TimeTrialBefore(x, dx, y, dy, by_class) ==
    IF by_class
    THEN (~dx /\ dy) \/ (dx = dy /\ FinisherBefore(x, y))
    ELSE FinisherBefore(x, y)

\* points gives the ranked riders of rs the leagueRankPoints of their
\* places in some ranking in which no rider stands behind one it comes
\* before.
FinishersAbove(rs, rd, points, by_class) ==
    LET declass(k) == Str(rs[k].zwiftId) \in StrSet(rd.manualDeclassifications)
    IN  \E order \in OrdersOf(RankedRiders(rs, rd, points)) :
            /\ \A i, j \in DOMAIN order :
                  i < j => ~TimeTrialBefore(rs[order[j]], declass(order[j]),
                                            rs[order[i]], declass(order[i]), by_class)
            /\ \A i \in DOMAIN order :
                  points[order[i]] = Some(SchemeAt(settings.leagueRankPoints, i - 1))

\* The scorer has ranked a time trial, or the standings hold the engine's
\* ranking of a stored time trial.
TimeTrialRanked(by_class) ==
    /\ /\ Ranked /\ settings.leagueRankPoints # <<>>
       /\ race_config.type = "time-trial"
       => FinishersAbove(riders, race_config, ScorerPoints(riders), by_class)
    /\ /\ phase = "saved" /\ settings.leagueRankPoints # <<>>
       /\ LastRace.type = "time-trial"
       => FinishersAbove(LastResults, LastRace,
                         EnginePoints(standings, LastResults, LastRace), by_class)

\* C22 as claimed: in a time trial with leagueRankPoints configured every
\* ranked rider with finishTime > 0 is placed above every ranked rider with
\* finishTime 0, and the finishers are ordered by finishTime ascending: no
\* non-finisher has a better league rank than a finisher of the race and
\* category.
C22_FinishersAboveAll == TimeTrialRanked(FALSE)

\* C22 as the code ranks: every valid ranked rider is placed above every
\* declassified one; among the valid riders and among the declassified
\* riders every finisher is placed above every non-finisher and the
\* finishers are ordered by finishTime ascending.
C22_FinishersAboveInClass == TimeTrialRanked(TRUE)

\* A time trial is stored in which a valid non-finisher that reached a
\* split holds more league points than a declassified finisher, by the
\* scorer and in the standings.
C22_Witness ==
    /\ phase = "saved" /\ settings.leagueRankPoints # <<>>
    /\ LastRace.type = "time-trial"
    /\ \E d, v \in DOMAIN LastResults :
          /\ DeclassifiedInLast(d) /\ LastResults[d].finishTime > 0
          /\ ValidInLast(v) /\ LastResults[v].finishTime = 0
          /\ LastResults[v].leaguePoints # None /\ LastResults[d].leaguePoints # None
          /\ LastResults[v].leaguePoints[1] > LastResults[d].leaguePoints[1]
          /\ EnginePoints(standings, LastResults, LastRace)[v]
                = LastResults[v].leaguePoints
          /\ EnginePoints(standings, LastResults, LastRace)[d]
                = LastResults[d].leaguePoints

---------------------------------------------------------------------------
(* C23: the scorer's league points and the league points of the standings *)

\* The race stored last is the race the scorer has just ranked, stored with
\* the configuration and the rider list of the scorer.
StoredAsRanked ==
    /\ phase = "saved"
    /\ LastRace = [race_config EXCEPT !.results = [c \in {subgroup} |-> riders]]

\* C23: for every race type and leagueRankPoints that are not empty, the
\* league points calculate_standings counts for a rider of a race and
\* category are the leaguePoints calculate_league_points has attached to the
\* rider for the same results and race configuration (a rider the scorer
\* gives None is not counted).
C23_EngineCountsScorerPoints ==
    StoredAsRanked /\ settings.leagueRankPoints # <<>>
    => \A k \in DOMAIN riders :
           EnginePoints(standings, riders, LastRace)[k] = riders[k].leaguePoints

---------------------------------------------------------------------------
(* C24: the order of a standings list *)

\* Entry a of a standings list stands rightly before entry b: more
\* totalPoints, or as many and no fewer lastRacePoints.
StandsBefore(a, b) ==
    \/ a.totalPoints > b.totalPoints
    \/ a.totalPoints = b.totalPoints /\ a.lastRacePoints >= b.lastRacePoints

\* C24: each category list calculate_standings returns is ordered by
\* totalPoints (the sum of the best bestRacesCount results) descending and,
\* among entries with equal totalPoints, by lastRacePoints descending.
C24_StandingsOrder ==
    \A c \in DOMAIN standings :
        \A i, j \in DOMAIN standings[c] :
            i < j => StandsBefore(standings[c][i], standings[c][j])

\* Two riders with equal totalPoints above 0 and different lastRacePoints;
\* the one listed first has the higher lastRacePoints and entered the
\* ledger after the other (its first race is a later one of the list).
C24_Witness ==
    /\ phase \in {"saved", "overridden"}
    /\ \E c \in DOMAIN standings :
          \E i, j \in DOMAIN standings[c] :
             LET a == standings[c][i]
                 b == standings[c][j]
                 first(zid) == CHOOSE k \in DOMAIN races_data :
                                  /\ StandingsPoints(standings, c, zid, races_data[k].id) # None
                                  /\ \A m \in 1..(k - 1) :
                                        StandingsPoints(standings, c, zid, races_data[m].id) = None
             IN  /\ i < j
                 /\ a.totalPoints = b.totalPoints /\ a.totalPoints > 0
                 /\ a.lastRacePoints > b.lastRacePoints
                 /\ first(a.zwiftId) > first(b.zwiftId)

---------------------------------------------------------------------------
(* C25: the latest race of a standings entry *)

\* The stored races counted for rider zid in category c: those of which the
\* rider's ledger holds a result.
CountedRaces(c, zid) ==
    {k \in DOMAIN races_data : StandingsPoints(standings, c, zid, races_data[k].id) # None}

\* The datetime of the k-th stored race as the standings used it.
DateUsed(k) == GetRaceDatetime(RaceUsed(k))

\* The races of the set S with a datetime, and those of them with the
\* largest datetime.
Dated(S) == {k \in S : DateUsed(k) # None}
Latest(S) == {k \in Dated(S) : \A m \in Dated(S) : DtGeq(DateUsed(k)[1], DateUsed(m)[1])}

\* C25: after calculate_standings, lastRaceDate and lastRacePoints of each
\* entry are the date and the league points of the chronologically latest
\* race (the largest race datetime) among the races counted for the rider in
\* the category, in whatever order the races are supplied: of several
\* counted races with that datetime the one supplied last gives the points,
\* and an entry none of whose counted races has a datetime holds no date and
\* 0 points.
C25_LastRaceIsLatest ==
    \A c \in DOMAIN standings :
        \A e \in DOMAIN standings[c] :
            LET entry == standings[c][e]
                latest == Latest(CountedRaces(c, entry.zwiftId))
            IN  IF latest = {}
                THEN entry.lastRaceDate = None /\ entry.lastRacePoints = 0
                ELSE LET k == CHOOSE x \in latest : \A m \in latest : m <= x
                     IN  /\ entry.lastRaceDate = DateUsed(k)
                         /\ Some(entry.lastRacePoints)
                               = StandingsPoints(standings, c, entry.zwiftId,
                                                 races_data[k].id)

\* An entry with three counted races whose latest race was supplied first
\* and gave other points than the race supplied last, which has a date.
C25_Witness ==
    /\ phase = "saved"
    /\ \E c \in DOMAIN standings :
          \E e \in DOMAIN standings[c] :
             LET entry == standings[c][e]
                 counted == CountedRaces(c, entry.zwiftId)
                 last == CHOOSE x \in counted : \A m \in counted : m <= x
             IN  /\ Cardinality(counted) = 3
                 /\ Latest(counted) = {1}
                 /\ DateUsed(last) # None
                 /\ entry.lastRaceDate = DateUsed(1)
                 /\ Some(entry.lastRacePoints)
                       = StandingsPoints(standings, c, entry.zwiftId, races_data[1].id)
                 /\ Some(entry.lastRacePoints)
                       # StandingsPoints(standings, c, entry.zwiftId, races_data[last].id)

---------------------------------------------------------------------------
(* C26: fresh segment efforts on the riders' sprintData *)

\* The rider of the scored list as it was handed to calculate_results.
RiderBefore(zid) ==
    fetched[CHOOSE k \in DOMAIN fetched : Str(fetched[k].zwiftId) = Str(zid)]

\* The crossings of a segment of the map by a rider: places in its results.
CrossingsOf(seg, zid) ==
    {k \in DOMAIN seg.results : seg.results[k].athleteId.digits = Str(zid)}

\* The n-th crossing of the segment by the rider, in ascending worldTime.
NthCrossing(seg, zid, n) ==
    LET mine == CrossingsOf(seg, zid)
    IN  seg.results[CHOOSE k \in mine :
            Cardinality({m \in mine :
                seg.results[m].worldTime < seg.results[k].worldTime}) = n - 1]

\* The SprintConfig of a segment for its n-th crossing: the first sprint of
\* the configuration with the id of the segment and the count n.
ConfigOfCrossing(seg_id, n) ==
    {c \in DOMAIN race_config.sprints :
        /\ race_config.sprints[c].id = seg_id
        /\ race_config.sprints[c].count = n
        /\ \A b \in 1..(c - 1) : ~(/\ race_config.sprints[b].id = seg_id
                                   /\ race_config.sprints[b].count = n)}

\* The crossings of the rider that belong under the key: a segment of the
\* map and the number n of a crossing the rider made, whose SprintConfig has
\* the key.
StoredUnder(zid, key) ==
    {p \in (DOMAIN segment_efforts_map) \X (1..MaxCrossings) :
        /\ p[2] <= Cardinality(CrossingsOf(segment_efforts_map[p[1]], zid))
        /\ \E c \in ConfigOfCrossing(segment_efforts_map[p[1]].id, p[2]) :
              SprintKey(race_config.sprints[c]) = key}

\* C26: after calculate_results with fresh segment efforts, every scored
\* rider holds under the key of each SprintConfig (its own key or
\* "{id}_{count}") the elapsed time and the worldTime of its crossing of
\* that segment whose number, counted 1, 2, 3, ... in ascending worldTime,
\* is the count of the SprintConfig; under every other key its sprintData
\* is as it was handed in: no entry for an occurrence the rider did not
\* ride, and nothing from a crossing without a SprintConfig of its count,
\* from a segment without configuration or from an athlete that is not on
\* the scored list.
C26_SegmentEffortsMapped ==
    (phase = "scored" /\ segment_efforts_map # NoEfforts) =>
        \A i \in DOMAIN riders : \A key \in Range(StrOrder) :
            LET zid == riders[i].zwiftId
                src == StoredUnder(zid, key)
                had == RiderBefore(zid).sprintData
                has == riders[i].sprintData
            IN  IF src = {}
                THEN /\ (key \in DOMAIN has) <=> (key \in DOMAIN had)
                     /\ key \in DOMAIN has =>
                           /\ has[key].time = had[key].time
                           /\ has[key].worldTime = had[key].worldTime
                ELSE /\ key \in DOMAIN has
                     /\ \E p \in src :
                           LET e == NthCrossing(segment_efforts_map[p[1]], zid, p[2])
                           IN  /\ has[key].time = e.elapsed
                               /\ has[key].worldTime = e.worldTime

\* Reached: the results list the later crossings first; a rider crossed s1
\* three times and holds lap 1 and lap 2 under "s1_1" and "fin", another
\* rider crossed it once and holds "s1_1" only; the map holds the
\* unconfigured segment s2 and a crossing of an athlete who is not scored.
C26_Witness ==
    /\ phase = "scored"
    /\ \E s \in DOMAIN segment_efforts_map : segment_efforts_map[s].id = "s2"
    /\ \E s \in DOMAIN segment_efforts_map :
          LET seg == segment_efforts_map[s]
          IN  /\ seg.id = "s1"
              /\ Len(seg.results) > 1
              /\ seg.results[1].worldTime > seg.results[Len(seg.results)].worldTime
              /\ \E k \in DOMAIN seg.results :
                    \A i \in DOMAIN riders :
                        Str(riders[i].zwiftId) # seg.results[k].athleteId.digits
              /\ \E i, j \in DOMAIN riders :
                    /\ Cardinality(CrossingsOf(seg, riders[i].zwiftId)) = 3
                    /\ DOMAIN riders[i].sprintData = {"s1_1", "fin"}
                    /\ riders[i].sprintData["s1_1"].worldTime
                           < riders[i].sprintData["fin"].worldTime
                    /\ Cardinality(CrossingsOf(seg, riders[j].zwiftId)) = 1
                    /\ DOMAIN riders[j].sprintData = {"s1_1"}

---------------------------------------------------------------------------
(* C27: sprintDetails after a list is scored again *)

\* The sprint-type keys of a rider's sprintDetails.
SprintTypeDetails(r) ==
    {k \in DOMAIN r.sprintDetails : SegmentTypeOf(race_config, k) # "split"}

RECURSIVE SumDetails(_, _)
\* The sum of the sprintDetails of a rider over a set of keys.
SumDetails(r, keys) ==
    IF keys = {} THEN 0
    ELSE LET k == CHOOSE x \in keys : TRUE
         IN  r.sprintDetails[k] + SumDetails(r, keys \ {k})

\* C27: after calculate_results on riders that carry the fields of an
\* earlier scoring, the sprint-type entries of a rider's sprintDetails are
\* the points awarded in this scoring: they add up to the rider's
\* sprintPoints, and a rider that is now disqualified or declassified has
\* no such entry left.
C27_SprintDetailsOfThisScoring ==
    phase \in {"rescored", "reclassified"} =>
        \A i \in DOMAIN riders :
            /\ SumDetails(riders[i], SprintTypeDetails(riders[i])) = riders[i].sprintPoints
            /\ (riders[i].disqualified \/ riders[i].declassified) =>
                   SprintTypeDetails(riders[i]) = {}

---------------------------------------------------------------------------
(* C28: calculate_league_points and the race configuration *)

\* C28: RaceScorer.calculate_league_points leaves the race configuration it
\* is given as it was before the call, for every race type, a time trial
\* whose segmentType is split included; the order of race_config['sprints']
\* does not change.
C28_ConfigUnchanged == [][CalculateLeaguePoints => race_config' = race_config]_vars

---------------------------------------------------------------------------
(* C29: scoring a scored list again *)

\* The fields the claim compares, rider by rider in list order.
ScoreOf(rs) ==
    [i \in DOMAIN rs |->
        [zwiftId |-> Str(rs[i].zwiftId), finishRank |-> rs[i].finishRank,
         finishPoints |-> rs[i].finishPoints, sprintPoints |-> rs[i].sprintPoints,
         totalPoints |-> rs[i].totalPoints]]

\* C29: calculate_results on the list an earlier call returned, with the
\* same race configuration, the same point schemes and no segment efforts,
\* returns the same riders with the same finishRank, finishPoints,
\* sprintPoints and totalPoints in the same order, also when riders have
\* equal finish times.
C29_RescoringIdempotent == phase = "rescored" => ScoreOf(riders) = ScoreOf(fetched)

---------------------------------------------------------------------------
(* C30: concurrent refreshes of different races *)

RECURSIVE CategoryRows(_, _)
\* The rows of a category in the stored results of the races, race by race
\* and rider by rider: the rider, the race and the rider's points in it.
CategoryRows(docs, category) ==
    IF docs = <<>> THEN <<>>
    ELSE LET doc == Head(docs)
             rs == IF category \in DOMAIN doc.results THEN doc.results[category]
                   ELSE <<>>
         IN  [k \in DOMAIN rs |->
                 [zwiftId |-> Str(rs[k].zwiftId), name |-> rs[k].name,
                  raceId |-> doc.id, points |-> rs[k].totalPoints]]
             \o CategoryRows(Tail(docs), category)

\* The standings entry of a rider: the rider's races by points descending,
\* totalPoints the sum of the best bestRacesCount of them.
EntryOfRows(rows, zid) ==
    LET mine == Filter(rows, {k \in DOMAIN rows : rows[k].zwiftId = zid})
        results == StableSortReversed(
                       [k \in DOMAIN mine |->
                           [raceId |-> mine[k].raceId, points |-> mine[k].points]],
                       [k \in DOMAIN mine |-> <<mine[k].points>>])
        best == Slice(results, settings.bestRacesCount)
    IN  [zwiftId |-> zid, name |-> mine[1].name, raceCount |-> Len(mine),
         results |-> results,
         totalPoints |-> SumSeq(AsTuple([k \in DOMAIN best |-> best[k].points]))]

\* The standings computed from race documents: per category the entries of
\* its riders, highest totalPoints first.
StandingsOfDocs(docs) ==
    [category \in UNION {DOMAIN docs[k].results : k \in DOMAIN docs} |->
        LET rows == CategoryRows(docs, category)
            firsts == SelectIdx(Len(rows),
                          {k \in DOMAIN rows :
                              \A j \in 1..(k - 1) : rows[j].zwiftId # rows[k].zwiftId})
            entries == [k \in DOMAIN firsts |-> EntryOfRows(rows, rows[firsts[k]].zwiftId)]
        IN  StableSortReversed(entries, [k \in DOMAIN entries |-> <<entries[k].totalPoints>>])]

\* C30: once the concurrent refreshes of different races have all
\* completed, the stored standings document is the standings computed from
\* the stored race documents.
C30_StandingsOfStoredRaces ==
    (\A p \in Procs : calls[p].pc = "done") => standings = StandingsOfDocs(races_data)

=============================================================================
